---- MODULE Spec2Model ----
(***************************************************************************)
(* A model of the peer-to-peer reactor of src/src/net/p2p.rs              *)
(* (PeerNetwork): the connection registry (peers, sockets, events,        *)
(* connecting), the readiness poller it registers sockets with, the       *)
(* capacity-1 channel pair of a NetworkHandle, and the work-state machine *)
(* that PeerNetwork::dispatch_network steps once per tick.                *)
(*                                                                         *)
(* One tick of PeerNetwork::run is a fixed sequence of steps; `pc` is the *)
(* reactor's position in it.  The foreign thread that owns the            *)
(* NetworkHandle runs concurrently with the reactor.                      *)
(*                                                                         *)
(* The module also models, each with variables and specifications of its  *)
(* own, the runloop of the stacks signer (stacks-signer/src/runloop.rs),  *)
(* StacksClient::send_message (stacks-signer/src/stacks_client.rs) and    *)
(* the transfer of fungible tokens (src/vm/functions/assets.rs).          *)
(***************************************************************************)
EXTENDS Naturals, Integers, Sequences, FiniteSets, TLC

\* ------------------------------------------------------------------ bounds

\* Event IDs handed out by the poller are 1..MaxEventId; no socket is opened
\* or accepted once they are used up.
MaxEventId == 2

\* connection_opts.num_clients: the configured limit of inbound conversations.
NumClients == 1

\* The configured limit of outbound conversations (max_outbound).  No code of
\* p2p.rs reads it when a conversation is registered.
MaxOutbound == 0

\* ------------------------------------------------------------------ values

\* Socket addresses (address bytes and port) of the remote endpoints.
Addrs == {"a1", "a2"}

\* PeerNetwork.peer_version, and a version other than ours that a caller may
\* put in a NeighborKey.
LocalPeerVersion == "v1"
PeerVersions == {"v1", "v2"}

\* NeighborKey: (peer_version, network_id, addrbytes, port).  The network id is
\* always the local one here; addr stands for (addrbytes, port).
NeighborKey(v, a) == [peer_version |-> v, addr |-> a]
NeighborKeys == {NeighborKey(v, a) : v \in PeerVersions, a \in Addrs}

\* NeighborKey::from_socketaddr(self.peer_version, self.local_peer.network_id, addr)
from_socketaddr(a) == NeighborKey(LocalPeerVersion, a)

\* The burn block heights the burn chain tip takes.
BurnHeights == {0, 1}

\* Option::None of a string-valued option, and of a record-valued one.
None == "None"
Nothing == [none |-> TRUE]

\* The neighbors stored in the PeerDB, which is keyed by NeighborKey: a node
\* is known at a2 and at a1, under the same public key, with records that
\* expire at block 0.
PeerDBNeighbors ==
    { [addr |-> from_socketaddr("a2"), public_key |-> "pk_a2", expire_block |-> 0],
      [addr |-> from_socketaddr("a1"), public_key |-> "pk_a2", expire_block |-> 0] }

\* PeerDB::get_peer(conn, network_id, addrbytes, port)
get_peer(a) ==
    IF \E n \in PeerDBNeighbors : n.addr.addr = a
    THEN CHOOSE n \in PeerDBNeighbors : n.addr.addr = a
    ELSE Nothing

VARIABLES
    peers,          \* HashMap<usize, ConversationP2P>
    sockets,        \* HashMap<usize, TcpStream>
    events,         \* HashMap<NeighborKey, usize>
    connecting,     \* HashMap<usize, (TcpStream, bool)>
    network,        \* NetworkState: the event IDs registered with the poller
    next_event_id,  \* NetworkState: the next event ID to hand out
    chain_view,     \* BurnchainView.burn_block_height
    work_state,     \* PeerNetworkWorkState
    do_prune,       \* the prune latch
    chan_in,        \* NetworkHandle request channel (capacity 1)
    chan_out,       \* NetworkHandle reply channel (capacity 1)
    client,         \* position of the foreign thread owning the NetworkHandle
    pc,             \* position of the reactor in the tick
    poll_new,       \* NetworkPollState.new, in the order it is drained
    poll_ready,     \* NetworkPollState.ready
    tick,           \* what the steps of the current tick did (per-tick record)
    relay_handles,  \* VecDeque<ReplyHandleP2P>: the event ID each handle writes to
    call,           \* the NetworkRequest of the NetworkHandle call that is waiting
    returned,       \* the Result the last NetworkHandle call returned
    script,         \* the foreign thread that reconnects: its position, the key
                    \* it connects to, the registry when its first and when its
                    \* second connection completed
    now,            \* get_epoch_time_secs()
    stats,          \* convo.stats of the conversations that have been heard
                    \* from, by event ID
    local_peer,     \* LocalPeer: private_key (its generation) and
                    \* private_key_expire
    rekey_handles,  \* Option<HashMap<usize, ReplyHandleP2P>>
    self_handles,   \* VecDeque<NetworkHandleServer>: the handles given out by
                    \* new_handle, each with the state of its two channels
    runloop,        \* stacks-signer RunLoop: state, commands and coordinator
    pass,           \* the position of run_one_pass and what the pass did
    slot_versions,  \* StacksClient.slot_versions: HashMap<u32, u32>
    sending,        \* the position of StacksClient::send_message and what
                    \* its attempts did
    ft_balances,    \* the fungible-token balances of the Clarity database,
                    \* by principal
    transfer        \* the last call of special_transfer_token

registry == <<peers, sockets, events, connecting, network, next_event_id,
              relay_handles>>
handle_state == <<call, returned, script>>
liveness == <<now, stats>>
keying == <<local_peer, rekey_handles>>
signer == <<runloop, pass>>
stackerdb == <<slot_versions, sending>>
tokens == <<ft_balances, transfer>>
vars == <<peers, sockets, events, connecting, network, next_event_id, chain_view,
          work_state, do_prune, chan_in, chan_out, client, pc, poll_new,
          poll_ready, tick, relay_handles, call, returned, script, now, stats,
          local_peer, rekey_handles, self_handles, runloop, pass,
          slot_versions, sending, ft_balances, transfer>>

\* ------------------------------------------------------------- hash maps

EmptyMap == [x \in {} |-> x]

\* HashMap::insert
MapInsert(m, k, v) == [x \in (DOMAIN m) \cup {k} |-> IF x = k THEN v ELSE m[x]]

\* HashMap::remove
MapRemove(m, k) == [x \in (DOMAIN m) \ {k} |-> m[x]]

\* ------------------------------------------------ registry operations
\* The registry operations are functions of a record
\*   n = [peers, sockets, events, connecting, network, next_event_id,
\*        relay_handles]
\* holding the fields of PeerNetwork they read and write.

Net ==
    [peers |-> peers, sockets |-> sockets, events |-> events,
     connecting |-> connecting, network |-> network,
     next_event_id |-> next_event_id, relay_handles |-> relay_handles]

\* PeerNetwork::is_registered
is_registered(n, nk) == nk \in DOMAIN n.events

\* PeerNetwork::count_outbound_conversations
count_outbound_conversations(ps) == Cardinality({e \in DOMAIN ps : ps[e].outbound})

\* PeerNetwork::lookup_peer: the stored neighbor is returned when
\* neighbor.expire_block < cur_block_height.
lookup_peer(cur_block_height, peer_addr) ==
    LET neighbor_opt == get_peer(peer_addr)
    IN  IF neighbor_opt = Nothing THEN Nothing
        ELSE IF neighbor_opt.expire_block < cur_block_height THEN neighbor_opt
        ELSE Nothing

\* Mutant of can_register_peer: the inbound limit is compared with > where the
\* code has >=.
can_register_peer_off_by_one(n, neighbor_key, outbound) ==
    IF neighbor_key \in DOMAIN n.events THEN "AlreadyConnected"
    ELSE IF ~outbound /\
            Cardinality(DOMAIN n.peers) - count_outbound_conversations(n.peers)
                > NumClients
         THEN "TooManyPeers"
    ELSE "Ok"

\* Mutant of can_register_peer: the outbound conversations are not subtracted
\* from peers.len().
can_register_peer_counts_all(n, neighbor_key, outbound) ==
    IF neighbor_key \in DOMAIN n.events THEN "AlreadyConnected"
    ELSE IF ~outbound /\ Cardinality(DOMAIN n.peers) > NumClients
         THEN "TooManyPeers"
    ELSE "Ok"

\* PeerNetwork::can_register_peer
can_register_peer(n, neighbor_key, outbound) ==
    IF neighbor_key \in DOMAIN n.events THEN "AlreadyConnected"
    ELSE IF ~outbound /\
            Cardinality(DOMAIN n.peers) - count_outbound_conversations(n.peers)
                >= NumClients
         THEN "TooManyPeers"
    ELSE "Ok"

\* Mutant of deregister_socket: the socket stays registered with the poller.
deregister_socket_forgotten(n, event_id) == n

\* PeerNetwork::deregister_socket: network.deregister(&socket)
deregister_socket(n, event_id) ==
    [n EXCEPT !.network = @ \ {event_id}]

\* ConversationP2P::new(..., &client_addr, ..., outbound, event_id) followed by
\* set_public_key(pubkey_opt)
ConversationP2P(peer_addr, outbound, event_id, pubkey_opt) ==
    [peer_addr |-> peer_addr, outbound |-> outbound, conn_id |-> event_id,
     public_key |-> pubkey_opt]

\* PeerNetwork::register_peer.  io is the outcome of the calls that can fail
\* before the registration: "SocketError" (socket.peer_addr()), "DBError"
\* (the PeerDB read of lookup_peer) or "Ok".  Returns the registry and the
\* Result.
register_peer(n, height, event_id, peer_addr, outbound, io) ==
    IF io = "SocketError"
    THEN [net |-> deregister_socket(n, event_id), res |-> "SocketError"]
    ELSE IF io = "DBError"
    THEN [net |-> deregister_socket(n, event_id), res |-> "DBError"]
    ELSE
      LET neighbor_opt == lookup_peer(height, peer_addr)
          pubkey_opt == IF neighbor_opt = Nothing THEN None ELSE neighbor_opt.public_key
          neighbor_key == IF neighbor_opt = Nothing THEN from_socketaddr(peer_addr)
                          ELSE neighbor_opt.addr
          can == can_register_peer(n, neighbor_key, outbound)
      IN  IF can # "Ok"
          THEN [net |-> deregister_socket(n, event_id), res |-> can]
          ELSE [net |-> [n EXCEPT
                    !.sockets = MapInsert(@, event_id, peer_addr),
                    !.peers = MapInsert(@, event_id,
                        ConversationP2P(peer_addr, outbound, event_id, pubkey_opt)),
                    !.events = MapInsert(@, neighbor_key, event_id)],
                res |-> "Ok"]

\* Mutant of deregister_peer: the conversation and its events go, and the
\* socket is deregistered from the poller, but it is left in `sockets`.
deregister_peer_keeps_socket(n, event_id) ==
    LET to_remove == {nk \in DOMAIN n.events : n.events[nk] = event_id}
    IN  [n EXCEPT
           !.peers = MapRemove(@, event_id),
           !.events = [nk \in (DOMAIN @) \ to_remove |-> @[nk]],
           !.network = @ \ {event_id}]

\* Mutant of deregister_peer: the `events` entries of the event ID are kept.
deregister_peer_keeps_events(n, event_id) ==
    LET n1 == [n EXCEPT !.peers = MapRemove(@, event_id)]
    IN  IF event_id \in DOMAIN n1.sockets
        THEN [n1 EXCEPT
                 !.network = @ \ {event_id},
                 !.sockets = MapRemove(@, event_id),
                 !.connecting = MapRemove(@, event_id)]
        ELSE n1

\* PeerNetwork::deregister_peer (the reactor is bound: self.network is Some)
deregister_peer(n, event_id) ==
    LET to_remove == {nk \in DOMAIN n.events : n.events[nk] = event_id}
        n1 == [n EXCEPT
                 !.peers = MapRemove(@, event_id),
                 !.events = [nk \in (DOMAIN @) \ to_remove |-> @[nk]]]
    IN  IF event_id \in DOMAIN n1.sockets
        THEN [n1 EXCEPT
                 !.network = @ \ {event_id},
                 !.sockets = MapRemove(@, event_id),
                 !.connecting = MapRemove(@, event_id)]
        ELSE n1

\* PeerNetwork::deregister_neighbor
deregister_neighbor(n, neighbor_key) ==
    IF neighbor_key \notin DOMAIN n.events THEN n
    ELSE deregister_peer(n, n.events[neighbor_key])

\* PeerNetwork::disconnect_peer (inv_state is not part of the registry)
disconnect_peer(n, neighbor_key) ==
    IF neighbor_key \notin DOMAIN n.events THEN n
    ELSE deregister_peer(n, n.events[neighbor_key])

\* What opening and registering a socket in connect_peer can return.
ConnectOutcomes == {"Ok", "ConnectError", "RegisterError"}

\* Mutant of connect_peer: the socket opened is registered with the poller
\* but not kept in `connecting`.
connect_peer_forgets_socket(n, neighbor, io) ==
    IF is_registered(n, neighbor)
    THEN [net |-> n, res |-> "Ok", event_id |-> n.events[neighbor]]
    ELSE IF io = "ConnectError" \/ n.next_event_id > MaxEventId
    THEN [net |-> n, res |-> "ConnectError", event_id |-> 0]
    ELSE IF io = "RegisterError"
    THEN [net |-> [n EXCEPT !.next_event_id = @ + 1], res |-> "RegisterError",
          event_id |-> 0]
    ELSE [net |-> [n EXCEPT
                !.next_event_id = @ + 1,
                !.network = @ \cup {n.next_event_id}],
          res |-> "Ok", event_id |-> n.next_event_id]

\* Mutant of connect_peer: a socket is opened whether or not the neighbor is
\* registered.
connect_peer_always_opens(n, neighbor, io) ==
    IF io = "ConnectError" \/ n.next_event_id > MaxEventId
    THEN [net |-> n, res |-> "ConnectError", event_id |-> 0]
    ELSE IF io = "RegisterError"
    THEN [net |-> [n EXCEPT !.next_event_id = @ + 1], res |-> "RegisterError",
          event_id |-> 0]
    ELSE [net |-> [n EXCEPT
                !.next_event_id = @ + 1,
                !.network = @ \cup {n.next_event_id},
                !.connecting = MapInsert(@, n.next_event_id,
                    [peer_addr |-> neighbor.addr, outbound |-> TRUE])],
          res |-> "Ok", event_id |-> n.next_event_id]

\* PeerNetwork::connect_peer.  io is the outcome of opening and registering the
\* socket: "ConnectError" (network.connect fails), "RegisterError"
\* (network.register fails, after the event ID was taken) or "Ok".  event_id
\* is the event ID of Ok(event_id), and 0 with an error.
connect_peer(n, neighbor, io) ==
    IF is_registered(n, neighbor)
    THEN [net |-> n, res |-> "Ok", event_id |-> n.events[neighbor]]
    ELSE IF io = "ConnectError" \/ n.next_event_id > MaxEventId
    THEN [net |-> n, res |-> "ConnectError", event_id |-> 0]
    ELSE IF io = "RegisterError"
    THEN [net |-> [n EXCEPT !.next_event_id = @ + 1], res |-> "RegisterError",
          event_id |-> 0]
    ELSE [net |-> [n EXCEPT
                !.next_event_id = @ + 1,
                !.network = @ \cup {n.next_event_id},
                !.connecting = MapInsert(@, n.next_event_id,
                    [peer_addr |-> neighbor.addr, outbound |-> TRUE])],
          res |-> "Ok", event_id |-> n.next_event_id]


RECURSIVE deregister_all(_, _)
\* for event_id in to_remove { self.deregister_peer(event_id) }
deregister_all(n, to_remove) ==
    IF to_remove = {} THEN n
    ELSE LET event_id == CHOOSE e \in to_remove : TRUE
         IN  deregister_all(deregister_peer(n, event_id), to_remove \ {event_id})

\* ------------------------------------------------------------- messages

\* What ConversationP2P::send_signed_request and relay_signed_message return:
\* a reply handle, or the error of a conversation that cannot queue the
\* message (its outbox is full).
SendOutcomes == {"Ok", "SendError"}

\* PeerNetwork::send_message.  io is what convo.send_signed_request returns.
\* "OkHandle" stands for Ok(reply_handle).
send_message(n, neighbor_key, io) ==
    IF neighbor_key \notin DOMAIN n.events
    THEN [net |-> n, res |-> "NoSuchNeighbor"]
    ELSE IF n.events[neighbor_key] \notin DOMAIN n.peers
    THEN [net |-> n, res |-> "PeerNotConnected"]
    ELSE IF io # "Ok"
    THEN [net |-> n, res |-> io]
    ELSE [net |-> n, res |-> "OkHandle"]

\* Mutant of relay_message: a neighbor that is not in `events` is reported
\* like one whose conversation is gone.
relay_message_not_connected(n, neighbor_key, io) ==
    IF neighbor_key \notin DOMAIN n.events
    THEN [net |-> n, res |-> "PeerNotConnected"]
    ELSE IF io # "Ok"
    THEN [net |-> n, res |-> io]
    ELSE [net |-> [n EXCEPT !.relay_handles = Append(@, n.events[neighbor_key])],
          res |-> "Ok"]

\* PeerNetwork::relay_message.  io is what convo.relay_signed_message returns;
\* the handle it returns is pushed to relay_handles.
relay_message(n, neighbor_key, io) ==
    IF neighbor_key \notin DOMAIN n.events
    THEN [net |-> n, res |-> "NoSuchNeighbor"]
    ELSE IF n.events[neighbor_key] \notin DOMAIN n.peers
    THEN [net |-> n, res |-> "PeerNotConnected"]
    ELSE IF io # "Ok"
    THEN [net |-> n, res |-> io]
    ELSE [net |-> [n EXCEPT !.relay_handles = Append(@, n.events[neighbor_key])],
          res |-> "Ok"]

RECURSIVE broadcast_message_stops(_, _, _)
\* Mutant of broadcast_message: the loop ends at the first neighbor the
\* message cannot be relayed to.
broadcast_message_stops(n, neighbor_keys, ios) ==
    IF neighbor_keys = <<>> THEN n
    ELSE LET r == relay_message(n, Head(neighbor_keys), Head(ios))
         IN  IF r.res # "Ok" THEN n
             ELSE broadcast_message_stops(r.net, Tail(neighbor_keys), Tail(ios))

RECURSIVE broadcast_message(_, _, _)
\* PeerNetwork::broadcast_message: ios are the outcomes of
\* convo.relay_signed_message per listed neighbor.
broadcast_message(n, neighbor_keys, ios) ==
    IF neighbor_keys = <<>> THEN n
    ELSE broadcast_message(relay_message(n, Head(neighbor_keys), Head(ios)).net,
                           Tail(neighbor_keys), Tail(ios))

\* PeerNetwork::flush_network_replies: the handles that still have data to
\* send are kept, in order; flushed are the positions of the handles that
\* finished or broke.
flush_network_replies(handles, flushed) ==
    LET F[i \in 0..Len(handles)] ==
            IF i = 0 THEN <<>>
            ELSE IF i \in flushed THEN F[i - 1]
            ELSE Append(F[i - 1], handles[i])
    IN  F[Len(handles)]

\* --------------------------------------------------- requests and replies

\* NetworkRequest, as built by NetworkHandle::connect_peer and
\* NetworkHandle::disconnect_peer
ConnectRequest(nk) ==
    [neighbors |-> <<nk>>, message |-> None, expect_reply |-> FALSE, connect |-> TRUE]
DisconnectRequest(nk) ==
    [neighbors |-> <<nk>>, message |-> None, expect_reply |-> FALSE, connect |-> FALSE]

\* NetworkRequest, as built by NetworkHandle::send_signed_request,
\* relay_signed_message and broadcast_signed_message.  There is one message.
SignedRequest(nk) ==
    [neighbors |-> <<nk>>, message |-> "ping", expect_reply |-> TRUE, connect |-> FALSE]
RelayRequest(nk) ==
    [neighbors |-> <<nk>>, message |-> "ping", expect_reply |-> FALSE, connect |-> FALSE]
BroadcastRequest(nks) ==
    [neighbors |-> nks, message |-> "ping", expect_reply |-> FALSE, connect |-> FALSE]

\* The neighbor keys the foreign thread names in its requests.
RequestKeys == {NeighborKey(LocalPeerVersion, a) : a \in Addrs}

\* The requests the foreign thread issues.
Requests ==
    {ConnectRequest(nk) : nk \in RequestKeys} \cup
    {DisconnectRequest(nk) : nk \in RequestKeys}

\* The neighbor lists the foreign thread broadcasts to.
BroadcastLists ==
    {<<>>, <<NeighborKey(LocalPeerVersion, "a1"), NeighborKey(LocalPeerVersion, "a2")>>}

\* The requests a NetworkHandle can issue.
HandleRequests ==
    Requests \cup
    {SignedRequest(nk) : nk \in RequestKeys} \cup
    {RelayRequest(nk) : nk \in RequestKeys} \cup
    {BroadcastRequest(nks) : nks \in BroadcastLists}

\* Every shape a NetworkRequest can have, with up to two neighbors.
RequestShapes ==
    [neighbors : {<<>>} \cup {<<a>> : a \in RequestKeys}
                        \cup {<<a, b>> : a, b \in RequestKeys},
     message : {None, "ping"},
     expect_reply : BOOLEAN,
     connect : BOOLEAN]

\* What the calls dispatch_request makes into the sockets and conversations
\* can return: the outcome of connect_peer's socket calls for a request
\* without a message, and of the conversation's queueing per listed neighbor
\* for one with a message.
RequestOutcomes(request) ==
    IF request.message = None THEN ConnectOutcomes
    ELSE [1..Len(request.neighbors) -> SendOutcomes]

\* Mutant of dispatch_request: a request with a message and no neighbor is a
\* broadcast to nobody, answered Ok.
dispatch_request_empty_ok(n, request, io) ==
    IF Len(request.neighbors) = 1
    THEN LET neighbor == request.neighbors[1]
         IN  IF request.message = None
             THEN IF request.connect
                  THEN LET res == connect_peer(n, neighbor, io)
                       IN  [net |-> res.net, res |-> res.res]
                  ELSE [net |-> disconnect_peer(n, neighbor), res |-> "Ok"]
             ELSE IF request.expect_reply
                  THEN send_message(n, neighbor, io[1])
                  ELSE relay_message(n, neighbor, io[1])
    ELSE IF request.message = None
         THEN [net |-> n, res |-> "InvalidHandle"]
         ELSE [net |-> broadcast_message(n, request.neighbors, io), res |-> "Ok"]

\* PeerNetwork::dispatch_request.  io is in RequestOutcomes(request).  Returns
\* the registry and the Result sent back: "Ok" stands for Ok(None),
\* "OkHandle" for Ok(Some(reply_handle)), any other value for that error.
dispatch_request(n, request, io) ==
    IF Len(request.neighbors) = 0
    THEN [net |-> n, res |-> "InvalidHandle"]
    ELSE IF Len(request.neighbors) = 1
    THEN LET neighbor == request.neighbors[1]
         IN  IF request.message = None
             THEN IF request.connect
                  THEN LET res == connect_peer(n, neighbor, io)
                       IN  [net |-> res.net, res |-> res.res]
                  ELSE [net |-> disconnect_peer(n, neighbor), res |-> "Ok"]
             ELSE IF request.expect_reply
                  THEN send_message(n, neighbor, io[1])
                  ELSE relay_message(n, neighbor, io[1])
    ELSE IF request.message = None
         THEN [net |-> n, res |-> "InvalidHandle"]
         ELSE [net |-> broadcast_message(n, request.neighbors, io), res |-> "Ok"]

\* ------------------------------------------------------------ the tick

\* PeerNetworkWorkState
WorkStates == {"NeighborWalk", "BlockInvSync", "BlockDownload", "Prune"}

\* The record of the tick in progress: the work state and the latch the tick
\* started with, and what do_network_work and the step just taken returned.
TickInit ==
    [work_state0 |-> None,     \* work_state when do_network_work was entered
     latch0 |-> FALSE,         \* self.do_prune when do_network_work was entered
     do_prune |-> FALSE,       \* the value do_network_work returned
     pruned |-> FALSE,         \* prune_connections was called
     new_log |-> <<>>,         \* process_new_sockets: one entry per socket
     connected |-> <<>>,       \* process_connecting_sockets: one entry per
                               \* socket, in the order they were taken
     work |-> Nothing,         \* what the phase stepped was given and returned
     blocks |-> <<>>,          \* network_result.blocks
     rekey |-> Nothing,        \* what the rekey at the end of the tick did
     refresh |-> None,         \* the refresh that failed at the tick's start
     convos |-> EmptyMap,      \* process_ready_sockets: by event ID, what recv,
                               \* chat and send did and what was called
     unhandled |-> EmptyMap,   \* network_result.unhandled_messages
     handles0 |-> <<>>,        \* self.handles when dispatch_requests was entered
     result |-> None]          \* the Result the tick returns

\* The foreign thread that reconnects has not started.
ScriptInit ==
    [step |-> "start", nk |-> Nothing, first |-> Nothing, last |-> Nothing]

\* LocalPeer: the private key (told apart by its generation) and the burn
\* block height at which it expires.
LocalPeer(k, e) == [private_key |-> k, private_key_expire |-> e]

\* rekey_handles: None
NoRekeyHandles == [some |-> FALSE, handles |-> EmptyMap]

\* RunLoop::from(&Config): no command is queued and the state is Idle.
RunLoopInit ==
    [state |-> "Idle", commands |-> <<>>, coordinator |-> "new"]

\* No pass of the signer's runloop has run.
PassInit ==
    [pc |-> "idle",           \* position in run_one_pass
     cmd |-> Nothing,         \* the command the pass was given
     event |-> Nothing,       \* the event it was given
     sent |-> None,           \* what res.send(operation_results) returned
     state0 |-> "Idle",       \* self.state when the pass was entered
     state1 |-> "Idle",       \* self.state when process_next_command was called
     commands1 |-> <<>>,      \* self.commands when it was called
     command |-> Nothing]     \* the command taken from the queue

InitSigner ==
    /\ runloop = RunLoopInit
    /\ pass = PassInit

\* No call of send_message is in progress.
SendingInit ==
    [pc |-> "idle",           \* position in send_message
     slot_id |-> 0,           \* the slot the message goes to
     attempts |-> <<>>,       \* per put_chunk: the version sent and the ack
     result |-> None]         \* what the call returned

\* StacksClient::from(&Config): slot_versions is empty.
InitStackerDB ==
    /\ slot_versions = EmptyMap
    /\ sending = SendingInit

\* special_transfer_token has not been called.
NoTransfer ==
    [res |-> None,            \* what the call returned
     amount |-> 0,            \* its arguments
     from |-> None,
     to |-> None,
     io |-> None,             \* what its calls into the database returned
     before |-> EmptyMap]     \* the balances when it was called

\* No fungible token is defined.
InitTokens ==
    /\ ft_balances = EmptyMap
    /\ transfer = NoTransfer

\* PeerNetwork::new, before the first call of run.
InitReactor ==
    /\ peers = EmptyMap
    /\ sockets = EmptyMap
    /\ events = EmptyMap
    /\ connecting = EmptyMap
    /\ network = {}
    /\ next_event_id = 1
    /\ chain_view = 0
    /\ work_state = "NeighborWalk"
    /\ do_prune = FALSE
    /\ chan_in = Nothing
    /\ chan_out = None
    /\ client = "idle"
    /\ pc = "idle"
    /\ poll_new = <<>>
    /\ poll_ready = {}
    /\ tick = TickInit
    /\ relay_handles = <<>>
    /\ call = Nothing
    /\ returned = None
    /\ script = ScriptInit
    /\ now = 1
    /\ stats = EmptyMap
    /\ rekey_handles = NoRekeyHandles
    /\ self_handles = <<>>

\* The reactor with a local key that outlives every burn block height.
Init ==
    /\ InitReactor
    /\ local_peer = LocalPeer(0, 2)
    /\ InitSigner
    /\ InitStackerDB
    /\ InitTokens

SetNet(n) ==
    /\ peers' = n.peers
    /\ sockets' = n.sockets
    /\ events' = n.events
    /\ connecting' = n.connecting
    /\ network' = n.network
    /\ next_event_id' = n.next_event_id
    /\ relay_handles' = n.relay_handles

\* ---- the foreign thread (NetworkHandle::connect_peer / disconnect_peer)

\* self.chan_in.send(req): the thread then blocks in self.chan_out.recv()
ForeignSend ==
    /\ client = "idle"
    /\ chan_in = Nothing
    /\ \E req \in Requests : chan_in' = req
    /\ client' = "waiting"
    /\ UNCHANGED <<registry, chain_view, work_state, do_prune, chan_out, pc,
                   poll_new, poll_ready, tick>>
    /\ UNCHANGED <<handle_state, liveness, keying, self_handles, signer, stackerdb, tokens>>

\* self.chan_out.recv() returns
ForeignRecv ==
    /\ client = "waiting"
    /\ chan_out # None
    /\ chan_out' = None
    /\ client' = "idle"
    /\ UNCHANGED <<registry, chain_view, work_state, do_prune, chan_in, pc,
                   poll_new, poll_ready, tick>>
    /\ UNCHANGED <<handle_state, liveness, keying, self_handles, signer, stackerdb, tokens>>

\* ---- the foreign thread, with the request of its call and what the call
\* ---- returned (every operation of NetworkHandle)

\* The match on the reply that ends each NetworkHandle operation:
\* send_signed_request returns the handle of Ok(Some(handle)) and panics on
\* Ok(None); the other operations return Ok(()) on any Ok(_).
handle_result(request, reply) ==
    IF request.expect_reply
    THEN IF reply = "Ok" THEN "panic" ELSE reply
    ELSE IF reply = "OkHandle" THEN "Ok" ELSE reply

\* Mutant of HandleSend: a send to a dropped reactor is taken as sent, and the
\* thread goes on to wait for the reply.
HandleSendUnchecked ==
    /\ client = "idle"
    /\ chan_in = Nothing
    /\ \E req \in HandleRequests :
         /\ call' = req
         /\ chan_in' = IF pc = "dropped" THEN Nothing ELSE req
    /\ returned' = None
    /\ client' = "waiting"
    /\ UNCHANGED <<registry, chain_view, work_state, do_prune, chan_out, pc,
                   poll_new, poll_ready, tick, script>>
    /\ UNCHANGED <<liveness, keying, self_handles, signer, stackerdb, tokens>>

\* self.chan_in.send(req).map_err(|_e| net_error::InvalidHandle)?: the send
\* fails when the reactor's receiver is dropped, and the operation returns.
HandleSend ==
    /\ client = "idle"
    /\ chan_in = Nothing
    /\ \E req \in HandleRequests :
         IF pc = "dropped"
         THEN /\ returned' = "InvalidHandle"
              /\ UNCHANGED <<chan_in, client, call>>
         ELSE /\ returned' = None
              /\ chan_in' = req
              /\ call' = req
              /\ client' = "waiting"
    /\ UNCHANGED <<registry, chain_view, work_state, do_prune, chan_out, pc,
                   poll_new, poll_ready, tick, script>>
    /\ UNCHANGED <<liveness, keying, self_handles, signer, stackerdb, tokens>>

\* self.chan_out.recv().map_err(|_e| net_error::InvalidHandle)?: a buffered
\* reply is received even if the reactor's sender is dropped; with none
\* buffered and the sender dropped the receive fails; otherwise it blocks.
HandleRecv ==
    /\ client = "waiting"
    /\ \/ /\ chan_out # None
          /\ returned' = handle_result(call, chan_out)
          /\ chan_out' = None
       \/ /\ chan_out = None
          /\ pc = "dropped"
          /\ returned' = "InvalidHandle"
          /\ UNCHANGED chan_out
    /\ client' = "idle"
    /\ call' = Nothing
    /\ UNCHANGED <<registry, chain_view, work_state, do_prune, chan_in, pc,
                   poll_new, poll_ready, tick, script>>
    /\ UNCHANGED <<liveness, keying, self_handles, signer, stackerdb, tokens>>

\* The PeerNetwork is dropped between two calls of run: its tables and its
\* NetworkHandleServer go, and with it the receiver of the request channel
\* (a buffered request is lost) and the sender of the reply channel.
Shutdown ==
    /\ pc = "idle"
    /\ pc' = "dropped"
    /\ peers' = EmptyMap
    /\ sockets' = EmptyMap
    /\ events' = EmptyMap
    /\ connecting' = EmptyMap
    /\ network' = {}
    /\ relay_handles' = <<>>
    /\ chan_in' = Nothing
    /\ UNCHANGED <<next_event_id, chain_view, work_state, do_prune, chan_out,
                   client, poll_new, poll_ready, tick, call, returned, script>>
    /\ UNCHANGED <<liveness, keying, self_handles, signer, stackerdb, tokens>>

\* ---- PeerNetwork::run: network.poll(poll_timeout)

\* The batches of sockets one poll can accept: their peer addresses, in the
\* order NetworkPollState.new is drained.
NewBatches == {<<>>} \cup {<<a>> : a \in Addrs} \cup {<<a, b>> : a, b \in Addrs}

\* The sockets accepted by a poll take the next event IDs.
Accepted(batch, first_id) ==
    [i \in 1..Len(batch) |-> [event_id |-> first_id + i - 1, peer_addr |-> batch[i]]]

\* network.poll() returns the accepted sockets and the ready event IDs, and
\* dispatch_network updates the burnchain snapshot (self.chain_view) and the
\* local peer.
PollOf(batches) ==
    /\ pc = "idle"
    /\ \E batch \in batches :
         /\ next_event_id + Len(batch) - 1 <= MaxEventId
         /\ poll_new' = Accepted(batch, next_event_id)
         /\ next_event_id' = next_event_id + Len(batch)
    /\ poll_ready' \in SUBSET network
    /\ chain_view' \in {h \in BurnHeights : h >= chain_view}
    /\ pc' = "dispatch_requests"
    /\ tick' = TickInit
    /\ UNCHANGED <<peers, sockets, events, connecting, network, relay_handles,
                   work_state, do_prune, chan_in, chan_out, client>>
    /\ UNCHANGED <<handle_state, liveness, keying, self_handles, signer, stackerdb, tokens>>

\* What can fail at the start of dispatch_network: the refresh of the burn
\* chain view (burndb.tx_begin() or get_burnchain_view) or, after it, the
\* reload of the local peer (get_local_peer).
Refreshes == {"burn_view", "local_peer"}

PollRefreshFailsAfterView(batches) ==
    /\ pc = "idle"
    /\ \E batch \in batches :
         /\ next_event_id + Len(batch) - 1 <= MaxEventId
         /\ next_event_id' = next_event_id + Len(batch)
    /\ \E failed \in Refreshes :
         /\ chain_view' \in {h \in BurnHeights : h >= chain_view}
         /\ tick' = [TickInit EXCEPT !.result = "Err", !.refresh = failed]
    /\ pc' = "done"
    /\ UNCHANGED <<peers, sockets, events, connecting, network, relay_handles,
                   work_state, do_prune, chan_in, chan_out, client,
                   poll_new, poll_ready>>
    /\ UNCHANGED <<handle_state, liveness, keying, self_handles, signer, stackerdb, tokens>>

\* network.poll() returns, and then the refresh of the burn chain view or the
\* reload of the local peer fails: the tick returns the error and the poll
\* state is dropped.  self.chain_view is assigned when the view was read, so
\* it is the new view when it is the reload of the local peer that fails.
PollRefreshFailsOf(batches) ==
    /\ pc = "idle"
    /\ \E batch \in batches :
         /\ next_event_id + Len(batch) - 1 <= MaxEventId
         /\ next_event_id' = next_event_id + Len(batch)
    /\ \E failed \in Refreshes :
         /\ IF failed = "burn_view"
            THEN chain_view' = chain_view
            ELSE chain_view' \in {h \in BurnHeights : h >= chain_view}
         /\ tick' = [TickInit EXCEPT !.result = "Err", !.refresh = failed]
    /\ pc' = "done"
    /\ UNCHANGED <<peers, sockets, events, connecting, network, relay_handles,
                   work_state, do_prune, chan_in, chan_out, client,
                   poll_new, poll_ready>>
    /\ UNCHANGED <<handle_state, liveness, keying, self_handles, signer, stackerdb, tokens>>

\* The ticks of a reactor whose listening socket accepts any batch.
Poll == PollOf(NewBatches)
PollRefreshFails == PollRefreshFailsOf(NewBatches)

\* The ticks of a reactor nobody connects to: every conversation is one the
\* foreign thread asked for.
PollOutbound == PollOf({<<>>})
PollOutboundRefreshFails == PollRefreshFailsOf({<<>>})

\* ---- PeerNetwork::dispatch_requests

\* Mutant of DispatchRequests: the request is dispatched and the reply is
\* not sent.
DispatchRequestsNoReply ==
    /\ pc = "dispatch_requests"
    /\ IF chan_in = Nothing
       THEN UNCHANGED <<registry, chan_in>>
       ELSE /\ \E io \in RequestOutcomes(chan_in) :
                 SetNet(dispatch_request(Net, chan_in, io).net)
            /\ chan_in' = Nothing
    /\ pc' = "new_sockets"
    /\ UNCHANGED <<chain_view, work_state, do_prune, client, poll_new,
                   poll_ready, tick, chan_out>>
    /\ UNCHANGED <<handle_state, liveness, keying, self_handles, signer, stackerdb, tokens>>

\* The handle's request, if there is one, is received, dispatched and
\* answered.
DispatchRequests ==
    /\ pc = "dispatch_requests"
    /\ IF chan_in = Nothing
       THEN UNCHANGED <<registry, chan_in, chan_out>>
       ELSE /\ chan_out = None
            /\ \E io \in RequestOutcomes(chan_in) :
                 LET r == dispatch_request(Net, chan_in, io)
                 IN  /\ SetNet(r.net)
                     /\ chan_out' = r.res
            /\ chan_in' = Nothing
    /\ pc' = "new_sockets"
    /\ UNCHANGED <<chain_view, work_state, do_prune, client, poll_new,
                   poll_ready, tick>>
    /\ UNCHANGED <<handle_state, liveness, keying, self_handles, signer, stackerdb, tokens>>

\* ---- PeerNetwork::process_new_sockets

\* What can happen to one accepted socket: network.register fails, or
\* register_peer runs with one of its outcomes.
NewSocketOutcomes == {"Ok", "RegisterError", "SocketError", "DBError"}

inbound_count(n) ==
    Cardinality(DOMAIN n.peers) - count_outbound_conversations(n.peers)

RECURSIVE process_new_sockets(_, _, _, _, _)
\* The loop over poll_state.new.drain(): new is what is left to drain, ios the
\* outcomes of the socket and database calls, log the entries so far.  Each
\* entry records the socket, the state register_peer was called in (the
\* inbound count, whether the key was already registered), its Result, and
\* whether peers, sockets and events are as they were before the call.
process_new_sockets(n, height, new, ios, log) ==
    IF new = <<>> THEN [net |-> n, log |-> log]
    ELSE
      LET s == Head(new)
          io == Head(ios)
      IN  IF s.event_id \in DOMAIN n.peers
          THEN process_new_sockets(n, height, Tail(new), Tail(ios), log)
          ELSE IF io = "RegisterError"
          THEN process_new_sockets(n, height, Tail(new), Tail(ios), log)
          ELSE
            LET n1 == [n EXCEPT !.network = @ \cup {s.event_id}]
                r == register_peer(n1, height, s.event_id, s.peer_addr, FALSE, io)
                entry == [event_id |-> s.event_id,
                          inbound_before |-> inbound_count(n),
                          key_registered |->
                              from_socketaddr(s.peer_addr) \in DOMAIN n.events,
                          res |-> r.res,
                          tables_same |-> /\ r.net.peers = n.peers
                                          /\ r.net.sockets = n.sockets
                                          /\ r.net.events = n.events]
            IN  process_new_sockets(r.net, height, Tail(new), Tail(ios),
                                    Append(log, entry))

ProcessNewSockets ==
    /\ pc = "new_sockets"
    /\ \E ios \in [1..Len(poll_new) -> NewSocketOutcomes] :
         LET r == process_new_sockets(Net, chain_view, poll_new, ios, <<>>)
         IN  /\ SetNet(r.net)
             /\ tick' = [tick EXCEPT !.new_log = r.log]
    /\ poll_new' = <<>>
    /\ pc' = "connecting_sockets"
    /\ UNCHANGED <<chain_view, work_state, do_prune, chan_in, chan_out, client,
                   poll_ready>>
    /\ UNCHANGED <<handle_state, liveness, keying, self_handles, signer, stackerdb, tokens>>

\* ---- PeerNetwork::process_connecting_sockets

\* The orders in which a set can be iterated.
Orders(S) ==
    {o \in [1..Cardinality(S) -> S] : \A x \in S : \E i \in DOMAIN o : o[i] = x}

RegisterOutcomes == {"Ok", "SocketError", "DBError"}

RECURSIVE process_connecting_sockets_no_remove(_, _, _, _)
\* Mutant of process_connecting_sockets: the socket is read from `connecting`
\* with get() and not removed from it.
process_connecting_sockets_no_remove(n, height, ready, ios) ==
    IF ready = <<>> THEN n
    ELSE
      LET event_id == Head(ready)
      IN  IF event_id \in DOMAIN n.connecting
          THEN LET c == n.connecting[event_id]
                   r == register_peer(n, height, event_id, c.peer_addr,
                                      c.outbound, ios[event_id])
               IN  process_connecting_sockets_no_remove(r.net, height,
                                                        Tail(ready), ios)
          ELSE process_connecting_sockets_no_remove(n, height, Tail(ready), ios)

RECURSIVE process_connecting_sockets(_, _, _, _)
\* The loop over poll_state.ready: ready is what is left of the connecting
\* event IDs in it, in the order they come, ios the outcomes of the socket and
\* database calls of register_peer per event ID.
process_connecting_sockets(n, height, ready, ios) ==
    IF ready = <<>> THEN n
    ELSE
      LET event_id == Head(ready)
      IN  IF event_id \in DOMAIN n.connecting
          THEN LET c == n.connecting[event_id]
                   n1 == [n EXCEPT !.connecting = MapRemove(@, event_id)]
                   r == register_peer(n1, height, event_id, c.peer_addr,
                                      c.outbound, ios[event_id])
               IN  process_connecting_sockets(r.net, height, Tail(ready), ios)
          ELSE process_connecting_sockets(n, height, Tail(ready), ios)

ProcessConnectingSockets ==
    /\ pc = "connecting_sockets"
    /\ \E ready \in Orders(poll_ready \cap DOMAIN connecting) :
       \E ios \in [poll_ready \cap DOMAIN connecting -> RegisterOutcomes] :
         SetNet(process_connecting_sockets(Net, chain_view, ready, ios))
    /\ tick' = [tick EXCEPT !.new_log = <<>>]
    /\ pc' = "ready_sockets"
    /\ UNCHANGED <<chain_view, work_state, do_prune, chan_in, chan_out, client,
                   poll_new, poll_ready>>
    /\ UNCHANGED <<handle_state, liveness, keying, self_handles, signer, stackerdb, tokens>>

\* ---- PeerNetwork::process_ready_sockets, and the deregistration of the
\* ---- failed conversations in dispatch_network

\* dead: the ready conversations process_p2p_conversation reports not alive.
process_ready_sockets(n, ready, dead) ==
    {e \in ready : \/ e \notin DOMAIN n.sockets
                   \/ e \notin DOMAIN n.peers
                   \/ e \in dead}

ProcessReadySockets ==
    /\ pc = "ready_sockets"
    /\ \E dead \in SUBSET (poll_ready \cap DOMAIN peers) :
         SetNet(deregister_all(Net, process_ready_sockets(Net, poll_ready, dead)))
    /\ poll_ready' = {}
    /\ pc' = "flush_relay_handles"
    /\ UNCHANGED <<chain_view, work_state, do_prune, chan_in, chan_out, client,
                   poll_new, tick>>
    /\ UNCHANGED <<handle_state, liveness, keying, self_handles, signer, stackerdb, tokens>>

\* ---- PeerNetwork::flush_relay_handles, and the deregistration of the broken
\* ---- conversations in dispatch_network

FlushRelayHandlesOf(flushable) ==
    /\ pc = "flush_relay_handles"
    /\ \E flushed \in flushable :
       \E broken \in SUBSET DOMAIN peers :
         SetNet(deregister_all(
                  [Net EXCEPT !.relay_handles = flush_network_replies(@, flushed)],
                  broken))
    /\ pc' = "disconnect_unresponsive"
    /\ UNCHANGED <<chain_view, work_state, do_prune, chan_in, chan_out, client,
                   poll_new, poll_ready, tick>>
    /\ UNCHANGED <<handle_state, liveness, keying, self_handles, signer, stackerdb, tokens>>

\* Any of the handles may finish or break; the others stay queued.
FlushRelayHandles == FlushRelayHandlesOf(SUBSET DOMAIN relay_handles)

\* The sockets take all that is written to them: every handle is flushed in
\* the tick it was queued in.
FlushRelayHandlesAll == FlushRelayHandlesOf({DOMAIN relay_handles})

\* ---- PeerNetwork::disconnect_unresponsive

DisconnectUnresponsive ==
    /\ pc = "disconnect_unresponsive"
    /\ \E to_remove \in SUBSET DOMAIN peers :
         SetNet(deregister_all(Net, to_remove))
    /\ pc' = "do_network_work"
    /\ UNCHANGED <<chain_view, work_state, do_prune, chan_in, chan_out, client,
                   poll_new, poll_ready, tick>>
    /\ UNCHANGED <<handle_state, liveness, keying, self_handles, signer, stackerdb, tokens>>


\* ---- PeerNetwork::do_network_work

\* The neighbor keys the walker, the inventory sync and the downloader report.
ReportedKeys == {NeighborKey(LocalPeerVersion, a) : a \in Addrs}

\* NeighborWalkResult
WalkResults ==
    [broken_connections : SUBSET ReportedKeys,
     replaced_neighbors : SUBSET ReportedKeys,
     do_prune : BOOLEAN]

\* The block hashes the downloader can return in one call: none, one block,
\* two blocks, the same block twice.
Downloads == {<<>>, <<"b1">>, <<"b1", "b2">>, <<"b1", "b1">>}

\* What the phase stepped is given and what its sub-protocol returns:
\*   NeighborWalk:  walk_peer_graph() = (done, walk_result_opt)
\*   BlockInvSync:  sync_peer_block_invs() = Err or Ok((finished, dead_neighbors))
\*   BlockDownload: dns_client_opt, and download_blocks() = Err or
\*                  Ok((done, blocks, .., broken_p2p_peers))
WorkInputs(ws) ==
    IF ws = "NeighborWalk"
    THEN [done : BOOLEAN, walk_result : WalkResults \cup {Nothing}]
    ELSE IF ws = "BlockInvSync"
    THEN [err : {TRUE}] \cup
         [err : {FALSE}, finished : BOOLEAN, dead_neighbors : SUBSET ReportedKeys]
    ELSE IF ws = "BlockDownload"
    THEN [dns_client : {FALSE}] \cup
         [dns_client : {TRUE}, err : {TRUE}] \cup
         [dns_client : {TRUE}, err : {FALSE}, done : BOOLEAN, blocks : Downloads,
          broken_p2p_peers : SUBSET ReportedKeys]
    ELSE {Nothing}

RECURSIVE deregister_neighbors(_, _)
\* for nk in keys { self.deregister_neighbor(nk) }
deregister_neighbors(n, keys) ==
    IF keys = {} THEN n
    ELSE LET nk == CHOOSE k \in keys : TRUE
         IN  deregister_neighbors(deregister_neighbor(n, nk), keys \ {nk})

\* Mutant of process_neighbor_walk: the replaced neighbors are not deregistered.
process_neighbor_walk_broken_only(n, walk_result) ==
    deregister_neighbors(n, walk_result.broken_connections)

\* PeerNetwork::process_neighbor_walk
process_neighbor_walk(n, walk_result) ==
    deregister_neighbors(
        deregister_neighbors(n, walk_result.broken_connections),
        walk_result.replaced_neighbors)

\* PeerNetwork::do_network_work.  w = [net, work_state, do_prune, blocks] is
\* the state it works on (the registry, self.work_state, self.do_prune,
\* network_result.blocks) and inp what the phase is given and its sub-protocol
\* returns.  ret is the Result<bool, net_error> returned.
Ok(v) == [ok |-> TRUE, value |-> v]
Err == [ok |-> FALSE]

\* Mutant of do_network_work: without a DNS client BlockDownload restarts the
\* cycle at NeighborWalk, skipping Prune.
do_network_work_skips_prune(w, inp) ==
    IF w.work_state = "NeighborWalk"
    THEN LET w1 == IF inp.walk_result = Nothing THEN w
                   ELSE [w EXCEPT
                           !.do_prune = inp.walk_result.do_prune,
                           !.net = process_neighbor_walk(@, inp.walk_result),
                           !.work_state = "BlockInvSync"]
             w2 == IF inp.done THEN [w1 EXCEPT !.work_state = "BlockInvSync"]
                   ELSE w1
         IN  [w |-> w2, ret |-> Ok(FALSE)]
    ELSE IF w.work_state = "BlockInvSync"
    THEN IF inp.err THEN [w |-> w, ret |-> Err]
         ELSE LET dead_events == {w.net.events[nk] :
                                    nk \in inp.dead_neighbors \cap DOMAIN w.net.events}
                  w1 == [w EXCEPT !.net = deregister_all(@, dead_events)]
                  w2 == IF inp.finished
                        THEN [w1 EXCEPT !.work_state = "BlockDownload"]
                        ELSE w1
              IN  [w |-> w2, ret |-> Ok(FALSE)]
    ELSE IF w.work_state = "BlockDownload"
    THEN IF ~inp.dns_client
         THEN [w |-> [w EXCEPT !.work_state = "NeighborWalk"], ret |-> Ok(FALSE)]
         ELSE IF inp.err THEN [w |-> w, ret |-> Err]
         ELSE LET w1 == [w EXCEPT
                           !.blocks = @ \o inp.blocks,
                           !.net = deregister_neighbors(@, inp.broken_p2p_peers)]
                  w2 == IF inp.done THEN [w1 EXCEPT !.work_state = "Prune"]
                        ELSE w1
              IN  [w |-> w2, ret |-> Ok(FALSE)]
    ELSE \* Prune
         LET ret == w.do_prune
             w1 == IF w.do_prune THEN [w EXCEPT !.do_prune = FALSE] ELSE w
         IN  [w |-> [w1 EXCEPT !.work_state = "NeighborWalk"], ret |-> Ok(ret)]

\* Mutant of do_network_work: BlockDownload advances to Prune whether or not
\* the downloader reports done.
do_network_work_ignores_done(w, inp) ==
    IF w.work_state = "NeighborWalk"
    THEN LET w1 == IF inp.walk_result = Nothing THEN w
                   ELSE [w EXCEPT
                           !.do_prune = inp.walk_result.do_prune,
                           !.net = process_neighbor_walk(@, inp.walk_result),
                           !.work_state = "BlockInvSync"]
             w2 == IF inp.done THEN [w1 EXCEPT !.work_state = "BlockInvSync"]
                   ELSE w1
         IN  [w |-> w2, ret |-> Ok(FALSE)]
    ELSE IF w.work_state = "BlockInvSync"
    THEN IF inp.err THEN [w |-> w, ret |-> Err]
         ELSE LET dead_events == {w.net.events[nk] :
                                    nk \in inp.dead_neighbors \cap DOMAIN w.net.events}
                  w1 == [w EXCEPT !.net = deregister_all(@, dead_events)]
                  w2 == IF inp.finished
                        THEN [w1 EXCEPT !.work_state = "BlockDownload"]
                        ELSE w1
              IN  [w |-> w2, ret |-> Ok(FALSE)]
    ELSE IF w.work_state = "BlockDownload"
    THEN IF ~inp.dns_client
         THEN [w |-> [w EXCEPT !.work_state = "Prune"], ret |-> Ok(FALSE)]
         ELSE IF inp.err THEN [w |-> w, ret |-> Err]
         ELSE LET w1 == [w EXCEPT
                           !.blocks = @ \o inp.blocks,
                           !.net = deregister_neighbors(@, inp.broken_p2p_peers)]
                  w2 == [w1 EXCEPT !.work_state = "Prune"]
              IN  [w |-> w2, ret |-> Ok(FALSE)]
    ELSE \* Prune
         LET ret == w.do_prune
             w1 == IF w.do_prune THEN [w EXCEPT !.do_prune = FALSE] ELSE w
         IN  [w |-> [w1 EXCEPT !.work_state = "NeighborWalk"], ret |-> Ok(ret)]

\* Mutant of do_network_work: Prune returns the latch without clearing it.
do_network_work_keeps_latch(w, inp) ==
    IF w.work_state = "NeighborWalk"
    THEN LET w1 == IF inp.walk_result = Nothing THEN w
                   ELSE [w EXCEPT
                           !.do_prune = inp.walk_result.do_prune,
                           !.net = process_neighbor_walk(@, inp.walk_result),
                           !.work_state = "BlockInvSync"]
             w2 == IF inp.done THEN [w1 EXCEPT !.work_state = "BlockInvSync"]
                   ELSE w1
         IN  [w |-> w2, ret |-> Ok(FALSE)]
    ELSE IF w.work_state = "BlockInvSync"
    THEN IF inp.err THEN [w |-> w, ret |-> Err]
         ELSE LET dead_events == {w.net.events[nk] :
                                    nk \in inp.dead_neighbors \cap DOMAIN w.net.events}
                  w1 == [w EXCEPT !.net = deregister_all(@, dead_events)]
                  w2 == IF inp.finished
                        THEN [w1 EXCEPT !.work_state = "BlockDownload"]
                        ELSE w1
              IN  [w |-> w2, ret |-> Ok(FALSE)]
    ELSE IF w.work_state = "BlockDownload"
    THEN IF ~inp.dns_client
         THEN [w |-> [w EXCEPT !.work_state = "Prune"], ret |-> Ok(FALSE)]
         ELSE IF inp.err THEN [w |-> w, ret |-> Err]
         ELSE LET w1 == [w EXCEPT
                           !.blocks = @ \o inp.blocks,
                           !.net = deregister_neighbors(@, inp.broken_p2p_peers)]
                  w2 == IF inp.done THEN [w1 EXCEPT !.work_state = "Prune"]
                        ELSE w1
              IN  [w |-> w2, ret |-> Ok(FALSE)]
    ELSE \* Prune
         LET ret == w.do_prune
             w1 == w
         IN  [w |-> [w1 EXCEPT !.work_state = "NeighborWalk"], ret |-> Ok(ret)]

do_network_work_download_resets_latch(w, inp) ==
    IF w.work_state = "NeighborWalk"
    THEN LET w1 == IF inp.walk_result = Nothing THEN w
                   ELSE [w EXCEPT
                           !.do_prune = inp.walk_result.do_prune,
                           !.net = process_neighbor_walk(@, inp.walk_result),
                           !.work_state = "BlockInvSync"]
             w2 == IF inp.done THEN [w1 EXCEPT !.work_state = "BlockInvSync"]
                   ELSE w1
         IN  [w |-> w2, ret |-> Ok(FALSE)]
    ELSE IF w.work_state = "BlockInvSync"
    THEN IF inp.err THEN [w |-> w, ret |-> Err]
         ELSE LET dead_events == {w.net.events[nk] :
                                    nk \in inp.dead_neighbors \cap DOMAIN w.net.events}
                  w1 == [w EXCEPT !.net = deregister_all(@, dead_events)]
                  w2 == IF inp.finished
                        THEN [w1 EXCEPT !.work_state = "BlockDownload"]
                        ELSE w1
              IN  [w |-> w2, ret |-> Ok(FALSE)]
    ELSE IF w.work_state = "BlockDownload"
    THEN IF ~inp.dns_client
         THEN [w |-> [w EXCEPT !.work_state = "Prune"], ret |-> Ok(FALSE)]
         ELSE IF inp.err THEN [w |-> w, ret |-> Err]
         ELSE LET w1 == [w EXCEPT
                           !.do_prune = FALSE,
                           !.blocks = @ \o inp.blocks,
                           !.net = deregister_neighbors(@, inp.broken_p2p_peers)]
                  w2 == IF inp.done THEN [w1 EXCEPT !.work_state = "Prune"]
                        ELSE w1
              IN  [w |-> w2, ret |-> Ok(FALSE)]
    ELSE \* Prune
         LET ret == w.do_prune
             w1 == IF w.do_prune THEN [w EXCEPT !.do_prune = FALSE] ELSE w
         IN  [w |-> [w1 EXCEPT !.work_state = "NeighborWalk"], ret |-> Ok(ret)]

\* PeerNetwork::do_network_work
do_network_work(w, inp) ==
    IF w.work_state = "NeighborWalk"
    THEN LET w1 == IF inp.walk_result = Nothing THEN w
                   ELSE [w EXCEPT
                           !.do_prune = inp.walk_result.do_prune,
                           !.net = process_neighbor_walk(@, inp.walk_result),
                           !.work_state = "BlockInvSync"]
             w2 == IF inp.done THEN [w1 EXCEPT !.work_state = "BlockInvSync"]
                   ELSE w1
         IN  [w |-> w2, ret |-> Ok(FALSE)]
    ELSE IF w.work_state = "BlockInvSync"
    THEN IF inp.err THEN [w |-> w, ret |-> Err]
         ELSE LET dead_events == {w.net.events[nk] :
                                    nk \in inp.dead_neighbors \cap DOMAIN w.net.events}
                  w1 == [w EXCEPT !.net = deregister_all(@, dead_events)]
                  w2 == IF inp.finished
                        THEN [w1 EXCEPT !.work_state = "BlockDownload"]
                        ELSE w1
              IN  [w |-> w2, ret |-> Ok(FALSE)]
    ELSE IF w.work_state = "BlockDownload"
    THEN IF ~inp.dns_client
         THEN [w |-> [w EXCEPT !.work_state = "Prune"], ret |-> Ok(FALSE)]
         ELSE IF inp.err THEN [w |-> w, ret |-> Err]
         ELSE LET w1 == [w EXCEPT
                           !.blocks = @ \o inp.blocks,
                           !.net = deregister_neighbors(@, inp.broken_p2p_peers)]
                  w2 == IF inp.done THEN [w1 EXCEPT !.work_state = "Prune"]
                        ELSE w1
              IN  [w |-> w2, ret |-> Ok(FALSE)]
    ELSE \* Prune
         LET ret == w.do_prune
             w1 == IF w.do_prune THEN [w EXCEPT !.do_prune = FALSE] ELSE w
         IN  [w |-> [w1 EXCEPT !.work_state = "NeighborWalk"], ret |-> Ok(ret)]

\* What the tick record keeps of inp: for a walk, whether it was done, whether
\* it returned a result, the neighbors the result lists as broken or replaced,
\* whether one of them was registered, and the result's do_prune.
Returned(ws, inp) ==
    IF ws = "NeighborWalk"
    THEN LET listed == IF inp.walk_result = Nothing THEN {}
                       ELSE inp.walk_result.broken_connections \cup
                            inp.walk_result.replaced_neighbors
         IN  [done |-> inp.done,
              some |-> inp.walk_result # Nothing,
              neighbors |-> listed,
              registered |-> listed \cap DOMAIN events # {},
              do_prune |-> inp.walk_result # Nothing /\ inp.walk_result.do_prune]
    ELSE IF ws = "BlockDownload"
    THEN [dns_client |-> inp.dns_client,
          done |-> inp.dns_client /\ ~inp.err /\ inp.done]
    ELSE Nothing

DoNetworkWorkOf(inputs) ==
    /\ pc = "do_network_work"
    /\ \E inp \in inputs :
         LET r == do_network_work(
                    [net |-> Net, work_state |-> work_state, do_prune |-> do_prune,
                     blocks |-> tick.blocks], inp)
             t == [tick EXCEPT !.work_state0 = work_state,
                               !.latch0 = do_prune,
                               !.work = Returned(work_state, inp),
                               !.blocks = r.w.blocks]
         IN  /\ SetNet(r.w.net)
             /\ work_state' = r.w.work_state
             /\ do_prune' = r.w.do_prune
             /\ IF ~r.ret.ok
                THEN /\ pc' = "done"
                     /\ tick' = [t EXCEPT !.result = "Err"]
                ELSE /\ pc' = "send_outbound_messages"
                     /\ tick' = [t EXCEPT !.do_prune = r.ret.value]
    /\ UNCHANGED <<chain_view, chan_in, chan_out, client, poll_new, poll_ready>>
    /\ UNCHANGED <<handle_state, liveness, keying, self_handles, signer, stackerdb, tokens>>

\* The phase stepped is given and returns anything it can.
DoNetworkWork == DoNetworkWorkOf(WorkInputs(work_state))

\* The neighbor walk is in progress and neither ends nor reports a result:
\* the work state stays NeighborWalk.
DoNetworkWorkWalking ==
    DoNetworkWorkOf({inp \in WorkInputs(work_state) :
                        work_state = "NeighborWalk" =>
                            ~inp.done /\ inp.walk_result = Nothing})

\* ---- PeerNetwork::send_outbound_messages, and the deregistration of the
\* ---- failed conversations in dispatch_network

SendOutboundMessages ==
    /\ pc = "send_outbound_messages"
    /\ \E to_remove \in SUBSET DOMAIN peers :
         SetNet(deregister_all(Net, to_remove))
    /\ tick' = [tick EXCEPT !.work = Nothing]
    /\ pc' = "prune_connections"
    /\ UNCHANGED <<chain_view, work_state, do_prune, chan_in, chan_out, client,
                   poll_new, poll_ready>>
    /\ UNCHANGED <<handle_state, liveness, keying, self_handles, signer, stackerdb, tokens>>

\* ---- dispatch_network: if do_prune { self.prune_connections() }

\* PeerNetwork::prune_connections: prune_frontier(&safe) deregisters some of
\* the conversations that are not in the safe set.
PruneConnections ==
    /\ pc = "prune_connections"
    /\ IF tick.do_prune
       THEN /\ \E safe \in SUBSET DOMAIN peers :
              \E pruned \in SUBSET (DOMAIN peers \ safe) :
                SetNet(deregister_all(Net, pruned))
            /\ tick' = [tick EXCEPT !.pruned = TRUE]
       ELSE /\ UNCHANGED registry
            /\ UNCHANGED tick
    /\ pc' = "rekey"
    /\ UNCHANGED <<chain_view, work_state, do_prune, chan_in, chan_out, client,
                   poll_new, poll_ready>>
    /\ UNCHANGED <<handle_state, liveness, keying, self_handles, signer, stackerdb, tokens>>

\* ---- dispatch_network: the re-key at the end of the tick, PeerNetwork::rekey
\* ---- (queue_ping_heartbeats, called before it, only queues messages)

\* connection_opts.private_key_lifetime, in burn blocks
PrivateKeyLifetime == 1

\* rekey_handles: Some(handles)
SomeHandles(h) == [some |-> TRUE, handles |-> h]

\* A ReplyHandleP2P of a re-key handshake: the key the handshake announces and
\* what try_recv() finds.
RekeyHandle(k) == [key |-> k, state |-> "pending"]
HandleStates == {"pending", "replied", "failed"}

\* What convo.sign_message and convo.send_signed_request do for one
\* conversation.
HandshakeOutcomes == {"Ok", "SignError", "SendError"}

key_expired_early(lp, burn_block_height) ==
    lp.private_key_expire <= burn_block_height + 1

\* is our key about to expire?
key_expired(lp, burn_block_height) ==
    lp.private_key_expire < burn_block_height + 1

\* peerdb.rekey(private_key_expire + private_key_lifetime): a new private key
\* with the new expiry.
peerdb_rekey(lp) ==
    LocalPeer(lp.private_key + 1, lp.private_key_expire + PrivateKeyLifetime)

\* rekey, with no handles in flight: sign and queue a Handshake on every
\* conversation, and keep the reply handles of those that took it.
rekey_begin(ps, lp, ios) ==
    SomeHandles([e \in {x \in DOMAIN ps : ios[x] = "Ok"} |->
                    RekeyHandle(lp.private_key)])

rekey_sweep_keeps_all(inflight_handles) ==
    SomeHandles(inflight_handles)

\* rekey, with handles in flight: consume the replies and the failures, keep
\* the handles still pending.
rekey_sweep(inflight_handles) ==
    LET new_inflight_handles ==
            [e \in {x \in DOMAIN inflight_handles :
                        inflight_handles[x].state = "pending"} |->
                inflight_handles[e]]
    IN  IF DOMAIN new_inflight_handles # {}
        THEN SomeHandles(new_inflight_handles)
        ELSE NoRekeyHandles

\* PeerNetwork::rekey
rekey(ps, lp, handles, ios) ==
    IF ~handles.some
    THEN rekey_begin(ps, lp, ios)
    ELSE rekey_sweep(handles.handles)

\* The outcomes of signing and queueing the handshakes, when rekey sends any.
HandshakeIos ==
    IF rekey_handles.some
    THEN {EmptyMap}
    ELSE [DOMAIN peers -> HandshakeOutcomes]

Rekey ==
    /\ pc = "rekey"
    /\ IF key_expired(local_peer, chain_view)
       THEN \/ /\ tick' = [tick EXCEPT !.result = "Err"]
               /\ UNCHANGED keying
            \/ \E ios \in HandshakeIos :
                 LET new_local_peer == peerdb_rekey(local_peer)
                 IN  /\ local_peer' = new_local_peer
                     /\ rekey_handles' =
                            rekey(peers, new_local_peer, rekey_handles, ios)
                     /\ tick' = [tick EXCEPT
                                    !.rekey = [rotated |-> TRUE, ios |-> ios,
                                               before |-> rekey_handles],
                                    !.result = "Ok"]
       ELSE /\ local_peer' = local_peer
            /\ rekey_handles' =
                   IF rekey_handles.some
                   THEN rekey(peers, local_peer, rekey_handles, EmptyMap)
                   ELSE rekey_handles
            /\ tick' = [tick EXCEPT
                           !.rekey = [rotated |-> FALSE, ios |-> EmptyMap,
                                      before |-> rekey_handles],
                           !.result = "Ok"]
    /\ pc' = "done"
    /\ UNCHANGED <<registry, chain_view, work_state, do_prune, chan_in, chan_out,
                   client, poll_new, poll_ready>>
    /\ UNCHANGED <<handle_state, liveness, self_handles, signer, stackerdb, tokens>>

\* ---- PeerNetwork::run returns

Return ==
    /\ pc = "done"
    /\ pc' = "idle"
    /\ tick' = TickInit
    /\ UNCHANGED <<registry, chain_view, work_state, do_prune, chan_in, chan_out,
                   client, poll_new, poll_ready>>
    /\ UNCHANGED <<handle_state, liveness, keying, self_handles, signer, stackerdb, tokens>>

Next ==
    \/ ForeignSend
    \/ ForeignRecv
    \/ Poll
    \/ PollRefreshFails
    \/ DispatchRequests
    \/ ProcessNewSockets
    \/ ProcessConnectingSockets
    \/ ProcessReadySockets
    \/ FlushRelayHandles
    \/ DisconnectUnresponsive
    \/ DoNetworkWork
    \/ SendOutboundMessages
    \/ PruneConnections
    \/ Rekey
    \/ Return

Spec == Init /\ [][Next]_vars

\* The reactor with a foreign thread that issues every operation of its
\* NetworkHandle, with no inbound connections, sockets that take all that is
\* written to them and a neighbor walk in progress, and that may be dropped
\* between ticks.
NextHandle ==
    \/ HandleSend
    \/ HandleRecv
    \/ Shutdown
    \/ PollOutbound
    \/ PollOutboundRefreshFails
    \/ DispatchRequests
    \/ ProcessNewSockets
    \/ ProcessConnectingSockets
    \/ ProcessReadySockets
    \/ FlushRelayHandlesAll
    \/ DisconnectUnresponsive
    \/ DoNetworkWorkWalking
    \/ SendOutboundMessages
    \/ PruneConnections
    \/ Rekey
    \/ Return

SpecHandle == Init /\ [][NextHandle]_vars

\* ---- a foreign thread that connects, disconnects and connects again

\* The neighbor keys the thread may name: the address with our peer version
\* or with another one.
ScriptKeys == NeighborKeys

\* The connection to addr that connect_peer started has completed: there is an
\* outbound conversation with addr and no socket for addr is left connecting.
Completed(n, addr) ==
    /\ \E e \in DOMAIN n.peers :
           n.peers[e].peer_addr = addr /\ n.peers[e].outbound
    /\ ~\E e \in DOMAIN n.connecting : n.connecting[e].peer_addr = addr

\* The thread calls connect_peer(nk), then disconnect_peer(nk), then
\* connect_peer(nk) on its NetworkHandle, each after the one before has
\* completed: the request is sent and the thread waits for the reply.
ScriptCall ==
    /\ client = "idle"
    /\ chan_in = Nothing
    /\ \E nk \in ScriptKeys :
         \/ /\ script.step = "start"
            /\ script' = [script EXCEPT !.step = "connect1", !.nk = nk]
            /\ chan_in' = ConnectRequest(nk)
         \/ /\ script.step = "connected1"
            /\ nk = script.nk
            /\ script' = [script EXCEPT !.step = "disconnect"]
            /\ chan_in' = DisconnectRequest(nk)
         \/ /\ script.step = "disconnected"
            /\ nk = script.nk
            /\ script' = [script EXCEPT !.step = "connect2"]
            /\ chan_in' = ConnectRequest(nk)
    /\ call' = chan_in'
    /\ returned' = None
    /\ client' = "waiting"
    /\ UNCHANGED <<registry, chain_view, work_state, do_prune, chan_out, pc,
                   poll_new, poll_ready, tick>>
    /\ UNCHANGED <<liveness, keying, self_handles, signer, stackerdb, tokens>>

\* The call returns with the reply.  The thread goes on only after Ok.
ScriptReturn ==
    /\ client = "waiting"
    /\ chan_out # None
    /\ returned' = handle_result(call, chan_out)
    /\ chan_out' = None
    /\ client' = "idle"
    /\ call' = Nothing
    /\ script' = [script EXCEPT !.step =
           IF chan_out # "Ok" THEN "failed"
           ELSE IF @ = "connect1" THEN "returned1"
           ELSE IF @ = "disconnect" THEN "disconnected"
           ELSE IF @ = "connect2" THEN "returned2"
           ELSE @]
    /\ UNCHANGED <<registry, chain_view, work_state, do_prune, chan_in, pc,
                   poll_new, poll_ready, tick>>
    /\ UNCHANGED <<liveness, keying, self_handles, signer, stackerdb, tokens>>

\* Between two ticks, the connection that an answered connect_peer started is
\* seen to have completed.  The registry is recorded as it is then.
ScriptCompleted ==
    /\ pc = "idle"
    /\ script.step \in {"returned1", "returned2"}
    /\ Completed(Net, script.nk.addr)
    /\ script' = IF script.step = "returned1"
                 THEN [script EXCEPT !.step = "connected1", !.first = Net]
                 ELSE [script EXCEPT !.step = "done", !.last = Net]
    /\ UNCHANGED <<registry, chain_view, work_state, do_prune, chan_in, chan_out,
                   client, pc, poll_new, poll_ready, tick, call, returned>>
    /\ UNCHANGED <<liveness, keying, self_handles, signer, stackerdb, tokens>>

\* The reactor with that thread, with no inbound connections, sockets that
\* take all that is written to them and a neighbor walk in progress.
NextReconnect ==
    \/ ScriptCall
    \/ ScriptReturn
    \/ ScriptCompleted
    \/ PollOutbound
    \/ PollOutboundRefreshFails
    \/ DispatchRequests
    \/ ProcessNewSockets
    \/ ProcessConnectingSockets
    \/ ProcessReadySockets
    \/ FlushRelayHandlesAll
    \/ DisconnectUnresponsive
    \/ DoNetworkWorkWalking
    \/ SendOutboundMessages
    \/ PruneConnections
    \/ Rekey
    \/ Return

SpecReconnect == Init /\ [][NextReconnect]_vars

\* ---- the reactor with a clock: conversations that fall silent

\* The clock stops at MaxTime.
MaxTime == 5

\* connection_opts.heartbeat, which a conversation takes as convo.heartbeat,
\* and NEIGHBOR_REQUEST_TIMEOUT, in seconds.
Heartbeat == 1
NEIGHBOR_REQUEST_TIMEOUT == 1

\* convo.stats of a conversation that has not been heard from.
NoStats == [last_handshake_time |-> 0, last_contact_time |-> 0]

\* convo.stats of the conversation with the event ID e
StatsOf(st, e) == IF e \in DOMAIN st THEN st[e] ELSE NoStats

\* What one call of process_p2p_conversation hears from a ready peer:
\* nothing, a message, or the message that completes the handshake.
Heard == {"nothing", "message", "handshake"}

\* The stats of a conversation after it heard h at the time t.
hear(st, h, t) ==
    IF h = "handshake"
    THEN [last_handshake_time |-> t, last_contact_time |-> t]
    ELSE IF h = "message"
    THEN [st EXCEPT !.last_contact_time = t]
    ELSE st

\* Mutant of unresponsive: a silence equal to the bound is enough.
unresponsive_at_bound(n, st, t) ==
    {event_id \in DOMAIN n.peers :
        /\ StatsOf(st, event_id).last_handshake_time > 0
        /\ StatsOf(st, event_id).last_contact_time + Heartbeat
               + NEIGHBOR_REQUEST_TIMEOUT <= t}

\* The first loop of disconnect_unresponsive: to_remove, at the time t.
unresponsive(n, st, t) ==
    {event_id \in DOMAIN n.peers :
        /\ StatsOf(st, event_id).last_handshake_time > 0
        /\ StatsOf(st, event_id).last_contact_time + Heartbeat
               + NEIGHBOR_REQUEST_TIMEOUT < t}

\* PeerNetwork::disconnect_unresponsive, at the time t
disconnect_unresponsive(n, st, t) ==
    deregister_all(n, unresponsive(n, st, t))

\* The stats st, of the conversations of the registry n only
StatsIn(n, st) == [e \in DOMAIN st \cap DOMAIN n.peers |-> st[e]]

\* process_ready_sockets as above, where each ready conversation that is
\* alive hears something, or nothing, at the time of the call.
ProcessReadySocketsTimed ==
    /\ pc = "ready_sockets"
    /\ \E dead \in SUBSET (poll_ready \cap DOMAIN peers) :
       \E heard \in [(poll_ready \cap DOMAIN peers) \ dead -> Heard] :
         LET n == deregister_all(Net, process_ready_sockets(Net, poll_ready, dead))
             st == [e \in {x \in DOMAIN heard : heard[x] # "nothing"}
                             \cup DOMAIN stats |->
                       IF e \in DOMAIN heard
                       THEN hear(StatsOf(stats, e), heard[e], now)
                       ELSE stats[e]]
         IN  /\ SetNet(n)
             /\ stats' = StatsIn(n, st)
    /\ poll_ready' = {}
    /\ pc' = "flush_relay_handles"
    /\ UNCHANGED <<chain_view, work_state, do_prune, chan_in, chan_out, client,
                   poll_new, tick, now>>
    /\ UNCHANGED <<handle_state, keying, self_handles, signer, stackerdb, tokens>>

\* disconnect_unresponsive, with the clock read at the start of the call.
\* The stats of the conversations it removes are kept, for the record, until
\* the next tick drops them.
DisconnectUnresponsiveTimed ==
    /\ pc = "disconnect_unresponsive"
    /\ SetNet(disconnect_unresponsive(Net, stats, now))
    /\ stats' = StatsIn(Net, stats)
    /\ pc' = "do_network_work"
    /\ UNCHANGED <<chain_view, work_state, do_prune, chan_in, chan_out, client,
                   poll_new, poll_ready, tick, now>>
    /\ UNCHANGED <<handle_state, keying, self_handles, signer, stackerdb, tokens>>

\* A second passes between two calls of run: a tick is taken to last less
\* than a second, so that its steps read the same time.
ClockAdvance ==
    /\ pc = "idle"
    /\ now < MaxTime
    /\ now' = now + 1
    /\ UNCHANGED <<registry, chain_view, work_state, do_prune, chan_in, chan_out,
                   client, pc, poll_new, poll_ready, tick, stats>>
    /\ UNCHANGED <<handle_state, keying, self_handles, signer, stackerdb, tokens>>

\* The reactor with inbound connections and a clock, with no foreign thread,
\* sockets that take all that is written to them and a neighbor walk in
\* progress.
NextHeartbeat ==
    \/ ClockAdvance
    \/ Poll
    \/ PollRefreshFails
    \/ DispatchRequests
    \/ ProcessNewSockets
    \/ ProcessConnectingSockets
    \/ ProcessReadySocketsTimed
    \/ FlushRelayHandlesAll
    \/ DisconnectUnresponsiveTimed
    \/ DoNetworkWorkWalking
    \/ SendOutboundMessages
    \/ PruneConnections
    \/ Rekey
    \/ Return

SpecHeartbeat == Init /\ [][NextHeartbeat]_vars

\* The thread of the reactor calls run again and again and each call runs to
\* its end; time passes, and the refresh of the burn chain view does not fail
\* for ever.
SpecHeartbeatFair ==
    /\ SpecHeartbeat
    /\ SF_vars(ClockAdvance)
    /\ SF_vars(Poll)
    /\ WF_vars(DispatchRequests)
    /\ WF_vars(ProcessNewSockets)
    /\ WF_vars(ProcessConnectingSockets)
    /\ WF_vars(ProcessReadySocketsTimed)
    /\ WF_vars(FlushRelayHandlesAll)
    /\ WF_vars(DisconnectUnresponsiveTimed)
    /\ WF_vars(DoNetworkWorkWalking)
    /\ WF_vars(SendOutboundMessages)
    /\ WF_vars(PruneConnections)
    /\ WF_vars(Rekey)
    /\ WF_vars(Return)

\* ---- the reactor with a local key that expires

\* A re-key handshake in flight is answered, or it fails (the request times
\* out or the connection breaks); rekey finds out at its next try_recv().
ResolveRekeyHandle ==
    /\ pc = "idle"
    /\ rekey_handles.some
    /\ \E e \in DOMAIN rekey_handles.handles :
       \E st \in HandleStates \ {"pending"} :
         /\ rekey_handles.handles[e].state = "pending"
         /\ rekey_handles' =
                [rekey_handles EXCEPT !.handles[e].state = st]
    /\ UNCHANGED <<registry, chain_view, work_state, do_prune, chan_in, chan_out,
                   client, pc, poll_new, poll_ready, tick, local_peer>>
    /\ UNCHANGED <<handle_state, liveness, self_handles, signer, stackerdb, tokens>>

\* The ticks of a reactor whose listening socket accepts one connection at
\* most in a poll.
PollOne == PollOf({<<>>} \cup {<<a>> : a \in Addrs})
PollOneRefreshFails == PollRefreshFailsOf({<<>>})

\* The local key has expired, or expires at the next burn block.
InitRekey ==
    /\ InitReactor
    /\ local_peer \in {LocalPeer(0, 0), LocalPeer(0, 1)}
    /\ InitSigner
    /\ InitStackerDB
    /\ InitTokens

\* The reactor with inbound connections and a key that expires, with no
\* foreign thread, sockets that take all that is written to them and a
\* neighbor walk in progress.
NextRekey ==
    \/ ResolveRekeyHandle
    \/ PollOne
    \/ PollOneRefreshFails
    \/ DispatchRequests
    \/ ProcessNewSockets
    \/ ProcessConnectingSockets
    \/ ProcessReadySockets
    \/ FlushRelayHandlesAll
    \/ DisconnectUnresponsive
    \/ DoNetworkWorkWalking
    \/ SendOutboundMessages
    \/ PruneConnections
    \/ Rekey
    \/ Return

SpecRekey == InitRekey /\ [][NextRekey]_vars

\* The rekey step of a tick in which the PeerDB does not fail.
RekeyOk == Rekey /\ tick'.result = "Ok"

\* The steps of a tick after the poll; one of them at most is enabled.
RekeyTickSteps ==
    \/ DispatchRequests
    \/ ProcessNewSockets
    \/ ProcessConnectingSockets
    \/ ProcessReadySockets
    \/ FlushRelayHandlesAll
    \/ DisconnectUnresponsive
    \/ DoNetworkWorkWalking
    \/ SendOutboundMessages
    \/ PruneConnections
    \/ Rekey
    \/ Return

\* The thread of the reactor calls run again and again and each call runs to
\* its end; neither the refresh of the burn chain view nor the PeerDB re-key
\* fails for ever, and every handshake in flight is answered or fails.
SpecRekeyFair ==
    /\ SpecRekey
    /\ SF_vars(ResolveRekeyHandle)
    /\ SF_vars(PollOne)
    /\ SF_vars(RekeyOk)
    /\ WF_vars(RekeyTickSteps)


\* ---- the reactor with conversations that receive, chat and send

\* What convo.recv, convo.chat and convo.send do on one ready conversation:
\* recv returns Ok, PermanentlyDrained (the remote peer closed the socket) or
\* another error; chat returns an error or the messages it did not handle.
RecvOutcomes == {"Ok", "PermanentlyDrained", "RecvError"}
ChatOutcomes == {"Ok", "ChatError"}
UnhandledMessages == {<<>>, <<"m1">>}
ConvoOutcomes ==
    [recv : RecvOutcomes, chat : ChatOutcomes, unhandled : UnhandledMessages,
     send : SendOutcomes]

\* The outcomes that differ in what is called: a chat that fails returns no
\* messages, and send has an outcome only when it is called, after a recv and
\* a chat that did not fail.
ConvoIos ==
    {io \in ConvoOutcomes :
        /\ io.chat # "Ok" => io.unhandled = <<>>
        /\ (io.recv # "Ok" \/ io.chat # "Ok") => io.send = "Ok"}

process_p2p_conversation_returns_early(io) ==
    IF io.recv # "Ok"
    THEN [unhandled |-> <<>>, alive |-> FALSE, calls |-> <<"recv">>]
    ELSE LET unhandled == IF io.chat = "Ok" THEN io.unhandled ELSE <<>>
         IN  IF io.chat # "Ok"
             THEN [unhandled |-> unhandled, alive |-> FALSE,
                   calls |-> <<"recv", "chat">>]
             ELSE [unhandled |-> unhandled, alive |-> io.send = "Ok",
                   calls |-> <<"recv", "chat", "send">>]

\* PeerNetwork::process_p2p_conversation: the unhandled messages, whether the
\* conversation is still alive, and the calls made on the conversation.
process_p2p_conversation(io) ==
    LET recv_dead == io.recv # "Ok"
        unhandled == IF io.chat = "Ok" THEN io.unhandled ELSE <<>>
        chat_dead == recv_dead \/ io.chat # "Ok"
    IN  IF ~chat_dead
        THEN [unhandled |-> unhandled, alive |-> io.send = "Ok",
              calls |-> <<"recv", "chat", "send">>]
        ELSE [unhandled |-> unhandled, alive |-> FALSE,
              calls |-> <<"recv", "chat">>]

\* The ready event IDs that have a socket and a conversation.
ReadyConversations(n, ready) == ready \cap DOMAIN n.sockets \cap DOMAIN n.peers

process_ready_sockets_chat_removes_ready(n, ready, ios) ==
    [to_remove |-> ready,
     unhandled |-> [e \in ReadyConversations(n, ready) |->
                      process_p2p_conversation(ios[e]).unhandled]]

\* PeerNetwork::process_ready_sockets, with what each conversation does: the
\* events to remove and the unhandled messages by event ID.
process_ready_sockets_chat(n, ready, ios) ==
    [to_remove |->
        {e \in ready : \/ e \notin DOMAIN n.sockets
                       \/ e \notin DOMAIN n.peers
                       \/ ~process_p2p_conversation(ios[e]).alive},
     unhandled |-> [e \in ReadyConversations(n, ready) |->
                      process_p2p_conversation(ios[e]).unhandled]]

\* process_ready_sockets, the deregistration of the failed conversations and
\* the insertion of the unhandled messages into network_result.
ProcessReadySocketsChat ==
    /\ pc = "ready_sockets"
    /\ \E ios \in [ReadyConversations(Net, poll_ready) -> ConvoIos] :
         LET r == process_ready_sockets_chat(Net, poll_ready, ios)
         IN  /\ SetNet(deregister_all(Net, r.to_remove))
             /\ tick' = [tick EXCEPT
                            !.convos =
                               [e \in DOMAIN ios |->
                                  [io |-> ios[e],
                                   calls |->
                                     process_p2p_conversation(ios[e]).calls]],
                            !.unhandled = r.unhandled]
    /\ poll_ready' = {}
    /\ pc' = "flush_relay_handles"
    /\ UNCHANGED <<chain_view, work_state, do_prune, chan_in, chan_out, client,
                   poll_new>>
    /\ UNCHANGED <<handle_state, liveness, keying, self_handles, signer, stackerdb, tokens>>

\* The reactor with inbound connections and a foreign thread that connects
\* and disconnects, with burn and peer databases that do not fail and a
\* neighbor walk in progress: all that fails is a conversation.
NextConvo ==
    \/ ForeignSend
    \/ ForeignRecv
    \/ Poll
    \/ DispatchRequests
    \/ ProcessNewSockets
    \/ ProcessConnectingSockets
    \/ ProcessReadySocketsChat
    \/ FlushRelayHandlesAll
    \/ DisconnectUnresponsive
    \/ DoNetworkWorkWalking
    \/ SendOutboundMessages
    \/ PruneConnections
    \/ Rekey
    \/ Return

SpecConvo == Init /\ [][NextConvo]_vars

\* ---- the reactor with several handles (PeerNetwork::handles)

\* The handles new_handle gives out are told apart by 1..MaxHandles.
MaxHandles == 3

\* A NetworkHandleServer, by the state of its channels:
\*   "idle"       the foreign end is alive and chan_in is empty
\*   "request"    the foreign end is alive, has sent a request and waits
\*   "replied"    the foreign end is alive and its reply is in chan_out
\*   "gone"       the foreign end was dropped and chan_in is empty
\*   "abandoned"  the foreign end was dropped with its request in chan_in
HandleServerStates == {"idle", "request", "replied", "gone", "abandoned"}
HandleServer(id, st) == [id |-> id, state |-> st]

\* VecDeque::remove(i): the element at index i (from 0) is taken out, and
\* nothing happens when there is none.
VecRemove(v, i) ==
    IF i < Len(v)
    THEN SubSeq(v, 1, i) \o SubSeq(v, i + 2, Len(v))
    ELSE v

RECURSIVE RemoveEach(_, _)
\* for i in to_remove { self.handles.remove(i); }
RemoveEach(v, to_remove) ==
    IF to_remove = <<>> THEN v
    ELSE RemoveEach(VecRemove(v, Head(to_remove)), Tail(to_remove))

\* Vec::reverse
Reverse(v) == [i \in 1..Len(v) |-> v[Len(v) + 1 - i]]

\* The indexes (from 0) of the elements of v whose state is in sts, ascending.
IndexesOf(v, sts) ==
    LET Test(i) == v[i + 1].state \in sts
    IN  SelectSeq([i \in 1..Len(v) |-> i - 1], Test)

\* The state dispatch_requests leaves a handle in: a request is taken and
\* answered; the reply reaches a foreign end that is alive.
Served(h) ==
    IF h.state = "request" THEN [h EXCEPT !.state = "replied"]
    ELSE IF h.state = "abandoned" THEN [h EXCEPT !.state = "gone"]
    ELSE h

\* PeerNetwork::dispatch_requests, on self.handles: try_recv() on a handle
\* returns the request in its channel, whether or not the sender was dropped
\* since, Empty, or Disconnected; the reply is sent to every handle a request
\* was taken from, which fails when the receiver was dropped.
dispatch_requests(hs) ==
    LET recv_disconnected == IndexesOf(hs, {"gone"})
        send_failed == IndexesOf(hs, {"abandoned"})
        to_remove == recv_disconnected \o send_failed
    IN  RemoveEach([i \in 1..Len(hs) |-> Served(hs[i])], Reverse(to_remove))

\* The ids of the handles in hs.
HandleIds(hs) == {hs[i].id : i \in DOMAIN hs}

\* PeerNetwork::new_handle
NewHandle ==
    /\ pc = "idle"
    /\ Len(self_handles) < MaxHandles
    /\ \E id \in (1..MaxHandles) \ HandleIds(self_handles) :
         self_handles' = Append(self_handles, HandleServer(id, "idle"))
    /\ UNCHANGED <<registry, chain_view, work_state, do_prune, chan_in, chan_out,
                   client, pc, poll_new, poll_ready, tick>>
    /\ UNCHANGED <<handle_state, liveness, keying, signer, stackerdb, tokens>>

\* The foreign end of a handle: it sends a request (disconnect_peer of a
\* neighbor that is not registered), takes its reply, is dropped, or goes
\* away with its request in the channel.
HandleClientStep ==
    /\ \E i \in DOMAIN self_handles :
       \E st \in HandleServerStates :
         /\ \/ self_handles[i].state = "idle" /\ st \in {"request", "gone"}
            \/ self_handles[i].state = "replied" /\ st = "idle"
            \/ self_handles[i].state = "request" /\ st = "abandoned"
         /\ self_handles' = [self_handles EXCEPT ![i].state = st]
    /\ UNCHANGED <<registry, chain_view, work_state, do_prune, chan_in, chan_out,
                   client, pc, poll_new, poll_ready, tick>>
    /\ UNCHANGED <<handle_state, liveness, keying, signer, stackerdb, tokens>>

\* dispatch_requests in the tick
DispatchRequestsHandles ==
    /\ pc = "dispatch_requests"
    /\ self_handles' = dispatch_requests(self_handles)
    /\ tick' = [tick EXCEPT !.handles0 = self_handles]
    /\ pc' = "new_sockets"
    /\ UNCHANGED <<registry, chain_view, work_state, do_prune, chan_in, chan_out,
                   client, poll_new, poll_ready>>
    /\ UNCHANGED <<handle_state, liveness, keying, signer, stackerdb, tokens>>

\* The reactor with several foreign threads, no connections and a neighbor
\* walk in progress.
NextHandles ==
    \/ NewHandle
    \/ HandleClientStep
    \/ PollOutbound
    \/ PollOutboundRefreshFails
    \/ DispatchRequestsHandles
    \/ ProcessNewSockets
    \/ ProcessConnectingSockets
    \/ ProcessReadySockets
    \/ FlushRelayHandlesAll
    \/ DisconnectUnresponsive
    \/ DoNetworkWorkWalking
    \/ SendOutboundMessages
    \/ PruneConnections
    \/ Rekey
    \/ Return

SpecHandles == Init /\ [][NextHandles]_vars

\* ---- the reactor and the thread that owns its NetworkHandle

\* The reactor with a foreign thread that sends requests and waits for their
\* replies, no inbound connections and a neighbor walk in progress.
NextChannel ==
    \/ ForeignSend
    \/ ForeignRecv
    \/ PollOutbound
    \/ PollOutboundRefreshFails
    \/ DispatchRequests
    \/ ProcessNewSockets
    \/ ProcessConnectingSockets
    \/ ProcessReadySockets
    \/ FlushRelayHandlesAll
    \/ DisconnectUnresponsive
    \/ DoNetworkWorkWalking
    \/ SendOutboundMessages
    \/ PruneConnections
    \/ Rekey
    \/ Return

SpecChannel == Init /\ [][NextChannel]_vars

\* The thread of the reactor calls run again and again and each call runs to
\* its end, the refresh of the burn chain view does not fail for ever, and
\* the foreign thread blocked in chan_out.recv() returns once a reply is
\* there.
SpecChannelFair ==
    /\ SpecChannel
    /\ SF_vars(PollOutbound)
    /\ WF_vars(RekeyTickSteps)
    /\ WF_vars(ForeignRecv)

\* ---- a foreign thread that connects and disconnects at once

\* The thread calls connect_peer(nk) and, as soon as that has returned Ok,
\* disconnect_peer(nk) on its NetworkHandle; it sends nothing after that.
CancelCall ==
    /\ client = "idle"
    /\ chan_in = Nothing
    /\ \E nk \in RequestKeys :
         \/ /\ script.step = "start"
            /\ script' = [script EXCEPT !.step = "connect1", !.nk = nk]
            /\ chan_in' = ConnectRequest(nk)
         \/ /\ script.step = "returned1"
            /\ nk = script.nk
            /\ script' = [script EXCEPT !.step = "disconnect"]
            /\ chan_in' = DisconnectRequest(nk)
    /\ call' = chan_in'
    /\ returned' = None
    /\ client' = "waiting"
    /\ UNCHANGED <<registry, chain_view, work_state, do_prune, chan_out, pc,
                   poll_new, poll_ready, tick>>
    /\ UNCHANGED <<liveness, keying, self_handles, signer, stackerdb, tokens>>

\* The reactor with that thread, with no inbound connections and a neighbor
\* walk in progress.
NextCancel ==
    \/ CancelCall
    \/ ScriptReturn
    \/ PollOutbound
    \/ PollOutboundRefreshFails
    \/ DispatchRequests
    \/ ProcessNewSockets
    \/ ProcessConnectingSockets
    \/ ProcessReadySockets
    \/ FlushRelayHandlesAll
    \/ DisconnectUnresponsive
    \/ DoNetworkWorkWalking
    \/ SendOutboundMessages
    \/ PruneConnections
    \/ Rekey
    \/ Return

SpecCancel == Init /\ [][NextCancel]_vars

\* ---- the reactor with connections that are opened more than once

RECURSIVE process_connecting_sockets_log(_, _, _, _)
\* What register_peer returned for each connecting socket of poll_state.ready,
\* in the order of the loop of process_connecting_sockets (the debug! lines
\* of the loop).
process_connecting_sockets_log(n, height, ready, ios) ==
    IF ready = <<>> THEN <<>>
    ELSE
      LET event_id == Head(ready)
      IN  IF event_id \in DOMAIN n.connecting
          THEN LET c == n.connecting[event_id]
                   n1 == [n EXCEPT !.connecting = MapRemove(@, event_id)]
                   r == register_peer(n1, height, event_id, c.peer_addr,
                                      c.outbound, ios[event_id])
               IN  <<[event_id |-> event_id, peer_addr |-> c.peer_addr,
                      io |-> ios[event_id], res |-> r.res]>> \o
                   process_connecting_sockets_log(r.net, height, Tail(ready), ios)
          ELSE process_connecting_sockets_log(n, height, Tail(ready), ios)

\* process_connecting_sockets in the tick, with what it did kept in the
\* record of the tick.
ProcessConnectingSocketsLogged ==
    /\ pc = "connecting_sockets"
    /\ \E ready \in Orders(poll_ready \cap DOMAIN connecting) :
       \E ios \in [poll_ready \cap DOMAIN connecting -> RegisterOutcomes] :
         /\ SetNet(process_connecting_sockets(Net, chain_view, ready, ios))
         /\ tick' = [tick EXCEPT
                !.new_log = <<>>,
                !.connected = process_connecting_sockets_log(Net, chain_view,
                                                             ready, ios)]
    /\ pc' = "ready_sockets"
    /\ UNCHANGED <<chain_view, work_state, do_prune, chan_in, chan_out, client,
                   poll_new, poll_ready>>
    /\ UNCHANGED <<handle_state, liveness, keying, self_handles, signer, stackerdb, tokens>>

\* The reactor with a foreign thread that connects and disconnects, no
\* inbound connections and a neighbor walk in progress.
NextConnect ==
    \/ ForeignSend
    \/ ForeignRecv
    \/ PollOutbound
    \/ PollOutboundRefreshFails
    \/ DispatchRequests
    \/ ProcessNewSockets
    \/ ProcessConnectingSocketsLogged
    \/ ProcessReadySockets
    \/ FlushRelayHandlesAll
    \/ DisconnectUnresponsive
    \/ DoNetworkWorkWalking
    \/ SendOutboundMessages
    \/ PruneConnections
    \/ Rekey
    \/ Return

SpecConnect == Init /\ [][NextConnect]_vars

\* ================================================================
\* The runloop of the stacks signer (stacks-signer/src/runloop.rs)
\* ================================================================

\* The commands queued at one time are MaxCommands at most.
MaxCommands == 2

\* The operation results one event yields are MaxResults at most.
MaxResults == 2

\* RunLoopCommand: Dkg, or Sign of one of two messages.
Dkg == [kind |-> "Dkg", message |-> None]
Sign(m) == [kind |-> "Sign", message |-> m]
RunLoopCommands == {Dkg, Sign("m1"), Sign("m2")}

\* State
States == {"Idle", "Dkg", "Sign"}

\* The state a started command moves the runloop to.
StateOf(command) == command.kind

\* The StackerDBChunksEvent a pass is given, by the number of operation
\* results process_event returns for it.
Events == {[results |-> k] : k \in 0..MaxResults}

\* What res.send(operation_results) can return.
ResultSends == {"Ok", "Err"}

\* What start_distributed_key_generation and start_signing_message can
\* return.
StartOutcomes == {"Ok", "Err"}

\* The reactor is not part of the signer.
ReactorUnchanged ==
    /\ UNCHANGED <<registry, chain_view, work_state, do_prune, chan_in, chan_out,
                   client, pc, poll_new, poll_ready, tick>>
    /\ UNCHANGED <<handle_state, liveness, keying, self_handles>>

\* RunLoop::execute_command.  io is what the coordinator returns when asked
\* to start the round.  Returns the runloop and the bool.
execute_command(r, command, io) ==
    IF io = "Ok"
    THEN [run |-> [r EXCEPT !.state = StateOf(command),
                            !.coordinator = "started"],
          ok |-> TRUE]
    ELSE [run |-> [r EXCEPT !.coordinator = "reset"], ok |-> FALSE]

\* Mutant of process_event_results: the state is left as it is.
process_event_results_keeps_state(r, event) == r

\* run_one_pass, on the operation results of the event it was given: with a
\* result or more, the command in progress has finished.
process_event_results(r, event) ==
    IF event # Nothing /\ event.results > 0
    THEN [r EXCEPT !.state = "Idle"]
    ELSE r

\* Mutant of next_command: the command is taken whatever the state is.
next_command_any_state(r) ==
    IF r.commands # <<>>
    THEN [run |-> [r EXCEPT !.commands = Tail(@)], command |-> Head(r.commands)]
    ELSE [run |-> r, command |-> Nothing]

\* RunLoop::process_next_command, up to its loop: the command at the front
\* of the queue is taken when the state is Idle.
next_command(r) ==
    IF r.state = "Idle" /\ r.commands # <<>>
    THEN [run |-> [r EXCEPT !.commands = Tail(@)], command |-> Head(r.commands)]
    ELSE [run |-> r, command |-> Nothing]

\* run_one_pass(event, cmd, res), up to the call of process_next_command: the
\* command is queued, the event is processed and its results are sent.
RunOnePass ==
    /\ pass.pc = "idle"
    /\ \E cmd \in {Nothing} \cup RunLoopCommands :
       \E event \in {Nothing} \cup Events :
       \E sent \in ResultSends :
         /\ cmd # Nothing => Len(runloop.commands) < MaxCommands
         /\ LET r1 == IF cmd = Nothing THEN runloop
                      ELSE [runloop EXCEPT !.commands = Append(@, cmd)]
                r2 == process_event_results(r1, event)
            IN  /\ runloop' = r2
                /\ pass' = [pc |-> "process_next_command",
                            cmd |-> cmd,
                            event |-> event,
                            sent |-> IF event # Nothing /\ event.results > 0
                                     THEN sent ELSE None,
                            state0 |-> runloop.state,
                            state1 |-> r2.state,
                            commands1 |-> r2.commands,
                            command |-> Nothing]
    /\ ReactorUnchanged
    /\ UNCHANGED <<stackerdb, tokens>>

\* process_next_command: with a command taken, the loop is entered; else the
\* pass returns.
ProcessNextCommand ==
    /\ pass.pc = "process_next_command"
    /\ LET n == next_command(runloop)
       IN  /\ runloop' = n.run
           /\ pass' = [pass EXCEPT
                  !.command = n.command,
                  !.pc = IF n.command = Nothing THEN "idle"
                         ELSE "execute_command"]
    /\ ReactorUnchanged
    /\ UNCHANGED <<stackerdb, tokens>>

\* while !self.execute_command(&command): one call of execute_command.  The
\* loop, and the pass, end when it returns true.
ExecuteCommand ==
    /\ pass.pc = "execute_command"
    /\ \E io \in StartOutcomes :
         LET x == execute_command(runloop, pass.command, io)
         IN  /\ runloop' = x.run
             /\ pass' = [pass EXCEPT !.pc = IF x.ok THEN "idle" ELSE "retrying"]
    /\ ReactorUnchanged
    /\ UNCHANGED <<stackerdb, tokens>>

\* warn!("Failed to execute command. Retrying..."), and the loop goes round.
Retry ==
    /\ pass.pc = "retrying"
    /\ pass' = [pass EXCEPT !.pc = "execute_command"]
    /\ ReactorUnchanged
    /\ UNCHANGED <<runloop, stackerdb, tokens>>

NextRunLoop ==
    \/ RunOnePass
    \/ ProcessNextCommand
    \/ ExecuteCommand
    \/ Retry

SpecRunLoop == Init /\ [][NextRunLoop]_vars

\* The steps of a pass that was entered.
PassSteps ==
    \/ ProcessNextCommand
    \/ ExecuteCommand
    \/ Retry

\* The thread of the signer runs every pass it has entered for as long as
\* the pass has a step to take.
SpecRunLoopFair == SpecRunLoop /\ WF_vars(PassSteps)

\* ================================================================
\* StacksClient::send_message (stacks-signer/src/stacks_client.rs)
\* ================================================================

\* The slot versions go up to MaxVersion.
MaxVersion == 3

\* slot_id(id, &message.msg): the slots of two kinds of message of one
\* signer.
Slots == {0, 1}

\* chunk_ack.reason
VersionConflict == "Data for this slot and version already exist"
Reasons == {None, VersionConflict, "other"}

\* What one round of the loop can meet: chunk.sign fails, put_chunk fails,
\* or put_chunk returns a StackerDBChunkAckData.
Outcome(kind, accepted, reason) ==
    [kind |-> kind, accepted |-> accepted, reason |-> reason]
SignError == Outcome("SignError", FALSE, None)
RPCError == Outcome("RPCError", FALSE, None)
Acks == {Outcome("Ack", a, r) : a \in BOOLEAN, r \in Reasons}
PutOutcomes == {SignError, RPCError} \cup Acks

\* *self.slot_versions.entry(slot_id).or_insert(0)
or_insert_0(versions, slot_id) ==
    IF slot_id \in DOMAIN versions THEN versions
    ELSE MapInsert(versions, slot_id, 0)

\* One round of the loop of send_message.  Returns slot_versions, the version
\* the chunk carries, and what the call returns (None when the loop goes
\* round again).
send_round(versions, slot_id, outcome) ==
    LET v0 == or_insert_0(versions, slot_id)
        slot_version == v0[slot_id] + 1
        v1 == MapInsert(v0, slot_id, slot_version)
    IN  IF outcome = SignError
        THEN [versions |-> v0, version |-> slot_version, result |-> "FailToSign"]
        ELSE IF outcome = RPCError
        THEN [versions |-> v0, version |-> slot_version,
              result |-> "PutChunkFailed"]
        ELSE IF outcome.accepted
        THEN [versions |-> v1, version |-> slot_version, result |-> "Ok"]
        ELSE IF outcome.reason = None
        THEN [versions |-> v1, version |-> slot_version, result |-> None]
        ELSE IF outcome.reason = VersionConflict
        THEN [versions |-> v1, version |-> slot_version, result |-> None]
        ELSE [versions |-> v1, version |-> slot_version,
              result |-> "PutChunkRejected"]

\* What bincode::serialize(&message) can return.
SerializeOutcomes == {"Ok", "Err"}

\* send_message(id, message), up to its loop.
SendMessage ==
    /\ sending.pc = "idle"
    /\ \E slot_id \in Slots :
       \E io \in SerializeOutcomes :
         sending' = [pc |-> IF io = "Ok" THEN "loop" ELSE "idle",
                     slot_id |-> slot_id,
                     attempts |-> <<>>,
                     result |-> IF io = "Ok" THEN None
                                ELSE "BincodeSerializationError"]
    /\ ReactorUnchanged
    /\ UNCHANGED <<signer, tokens, slot_versions>>

\* The version the next chunk for the slot carries.
NextVersion(versions, slot_id) == or_insert_0(versions, slot_id)[slot_id] + 1

\* One round of the loop: the chunk is signed and put, and the call returns
\* or goes round again.
SendRound ==
    /\ sending.pc = "loop"
    /\ NextVersion(slot_versions, sending.slot_id) <= MaxVersion
    /\ \E outcome \in PutOutcomes :
         LET r == send_round(slot_versions, sending.slot_id, outcome)
         IN  /\ slot_versions' = r.versions
             /\ sending' = [sending EXCEPT
                    !.pc = IF r.result = None THEN "loop" ELSE "idle",
                    !.attempts = Append(@, [version |-> r.version,
                                            outcome |-> outcome]),
                    !.result = r.result]
    /\ ReactorUnchanged
    /\ UNCHANGED <<signer, tokens>>

NextSend ==
    \/ SendMessage
    \/ SendRound

SpecSend == Init /\ [][NextSend]_vars

\* ================================================================
\* Fungible-token transfer (src/vm/functions/assets.rs)
\* ================================================================

\* The integers of the model go up to MaxInt (i128::MAX in the code), which is
\* also the most the token supply can be.
MaxInt == 3

Principals == {"p1", "p2", "p3"}

\* The amounts a transfer is called with.
Amounts == (0 - 1)..MaxInt

RECURSIVE SumOver(_, _)
\* The sum of the balances of the principals in S.
SumOver(bal, S) ==
    IF S = {} THEN 0
    ELSE LET p == CHOOSE x \in S : TRUE
         IN  bal[p] + SumOver(bal, S \ {p})

TotalBalance(bal) == SumOver(bal, DOMAIN bal)

\* What the function returns.
ResponseOk == "(ok true)"
ResponseErr(code) ==
    IF code = 1 THEN "(err 1)" ELSE IF code = 2 THEN "(err 2)" ELSE "(err 3)"

\* TransferTokenErrorCodes
NOT_ENOUGH_BALANCE == 1
SENDER_IS_RECIPIENT == 2
NON_POSITIVE_AMOUNT == 3

\* What the calls the function makes can return: the arguments do not
\* evaluate to an integer and two principals, a read or a write of a balance
\* fails, the transfer cannot be logged, or all of them work.
TransferIos ==
    {"Ok", "InvalidArguments", "GetFromErr", "GetToErr", "SetFromErr",
     "SetToErr", "LogErr"}

\* Mutant of special_transfer_token: the balance of the sender is not
\* compared with the amount.
special_transfer_token_unchecked(bal, amount, from, to, io) ==
    IF io = "InvalidArguments" THEN [bal |-> bal, res |-> "InvalidArguments"]
    ELSE IF amount <= 0
    THEN [bal |-> bal, res |-> ResponseErr(NON_POSITIVE_AMOUNT)]
    ELSE IF from = to
    THEN [bal |-> bal, res |-> ResponseErr(SENDER_IS_RECIPIENT)]
    ELSE IF io \in {"GetFromErr", "GetToErr", "SetFromErr"}
    THEN [bal |-> bal, res |-> "RuntimeError"]
    ELSE IF bal[to] + amount > MaxInt
    THEN [bal |-> bal, res |-> "ArithmeticOverflow"]
    ELSE IF io = "SetToErr"
    THEN [bal |-> [bal EXCEPT ![from] = @ - amount], res |-> "RuntimeError"]
    ELSE [bal |-> [bal EXCEPT ![from] = @ - amount, ![to] = @ + amount],
          res |-> IF io = "LogErr" THEN "RuntimeError" ELSE ResponseOk]

\* special_transfer_token, on the balances of the token.  Returns the
\* balances and the Result.
special_transfer_token(bal, amount, from, to, io) ==
    IF io = "InvalidArguments" THEN [bal |-> bal, res |-> "InvalidArguments"]
    ELSE IF amount <= 0
    THEN [bal |-> bal, res |-> ResponseErr(NON_POSITIVE_AMOUNT)]
    ELSE IF from = to
    THEN [bal |-> bal, res |-> ResponseErr(SENDER_IS_RECIPIENT)]
    ELSE IF io = "GetFromErr"
    THEN [bal |-> bal, res |-> "RuntimeError"]
    ELSE IF bal[from] < amount
    THEN [bal |-> bal, res |-> ResponseErr(NOT_ENOUGH_BALANCE)]
    ELSE IF io = "GetToErr"
    THEN [bal |-> bal, res |-> "RuntimeError"]
    ELSE IF bal[to] + amount > MaxInt
    THEN [bal |-> bal, res |-> "ArithmeticOverflow"]
    ELSE IF io = "SetFromErr"
    THEN [bal |-> bal, res |-> "RuntimeError"]
    ELSE IF io = "SetToErr"
    THEN [bal |-> [bal EXCEPT ![from] = @ - amount], res |-> "RuntimeError"]
    ELSE [bal |-> [bal EXCEPT ![from] = @ - amount, ![to] = @ + amount],
          res |-> IF io = "LogErr" THEN "RuntimeError" ELSE ResponseOk]

\* (transfer-token! token amount from to)
TransferToken ==
    /\ \E amount \in Amounts :
       \E from \in Principals :
       \E to \in Principals :
       \E io \in TransferIos :
         LET r == special_transfer_token(ft_balances, amount, from, to, io)
         IN  /\ ft_balances' = r.bal
             /\ transfer' = [res |-> r.res, amount |-> amount, from |-> from,
                             to |-> to, io |-> io, before |-> ft_balances]
    /\ ReactorUnchanged
    /\ UNCHANGED <<signer, stackerdb>>

\* The token has been minted: every principal has a balance, none is
\* negative, and together they are within the supply.
InitTransfer ==
    /\ InitReactor
    /\ local_peer = LocalPeer(0, 2)
    /\ InitSigner
    /\ InitStackerDB
    /\ ft_balances \in {b \in [Principals -> 0..MaxInt] :
                           TotalBalance(b) <= MaxInt}
    /\ transfer = NoTransfer

NextTransfer == TransferToken

SpecTransfer == InitTransfer /\ [][NextTransfer]_vars

\* ------------------------------------------------------------- claims

Range(f) == {f[x] : x \in DOMAIN f}

\* Some event ID that was handed out is in no registry table any more.
SomeEventGone ==
    \E e \in 1..(next_event_id - 1) :
        e \notin DOMAIN peers \cup DOMAIN sockets \cup DOMAIN connecting

\* C1: in every state of a bound reactor - after every tick and after every
\* register_peer / deregister_peer / connect / disconnect inside one - an
\* event ID is a key of `sockets` if and only if it is a key of `peers`.
C1_SocketsIffPeers == DOMAIN sockets = DOMAIN peers

\* C1 witness: between ticks a conversation is registered while another event
\* ID has already left the registry.
C1_Witness == pc = "idle" /\ DOMAIN peers # {} /\ SomeEventGone

\* C2: whenever `events` maps nk to eid, peers[eid] exists and is the
\* conversation registered for nk (made for that event ID and for the socket
\* address of nk); no entry of `events` is dangling.
C2_EventsPointToPeers ==
    \A nk \in DOMAIN events :
        /\ events[nk] \in DOMAIN peers
        /\ peers[events[nk]].conn_id = events[nk]
        /\ peers[events[nk]].peer_addr = nk.addr

\* C2 witness: a neighbor is registered after another event ID left the
\* registry.
C2_Witness == pc = "idle" /\ DOMAIN events # {} /\ SomeEventGone

\* C3: the key sets of `connecting` and `sockets` are disjoint in every state.
C3_ConnectingDisjointSockets == DOMAIN connecting \cap DOMAIN sockets = {}

\* C3 witness: one connecting socket has been promoted (an outbound
\* conversation is registered) while another is still connecting.
C3_Witness ==
    /\ \E e \in DOMAIN peers : peers[e].outbound
    /\ DOMAIN connecting # {}

\* C4: after every completed tick every event ID in `events`, `sockets` or
\* `connecting` is registered with the poller, and the poller holds no socket
\* that left the registry or failed to enter it.
C4_RegistryInPoller ==
    pc = "idle" =>
        /\ Range(events) \cup DOMAIN sockets \cup DOMAIN connecting \subseteq network
        /\ network \subseteq DOMAIN sockets \cup DOMAIN connecting

\* C4 witness: between ticks, a socket is in the registry and registered with
\* the poller, and another one has left the registry and the poller.
C4_Witness ==
    /\ pc = "idle"
    /\ network # {}
    /\ \E e \in 1..(next_event_id - 1) : e \notin network


\* C5 as claimed: after every completed tick peers.len() is at most
\* max_inbound + max_outbound.
C5_PeersBounded ==
    pc = "idle" => Cardinality(DOMAIN peers) <= NumClients + MaxOutbound

\* C5 as amended: only the inbound conversations are limited when a
\* conversation is registered: after every completed tick (and in every state)
\* peers.len() is at most num_clients plus the number of outbound
\* conversations, whatever that number is.
C5_InboundBounded ==
    Cardinality(DOMAIN peers) <= NumClients + count_outbound_conversations(peers)

\* C5 witness: between ticks the inbound conversations are at the limit and an
\* outbound conversation opened by a connect request is registered as well.
C5_Witness ==
    /\ pc = "idle"
    /\ inbound_count(Net) = NumClients
    /\ count_outbound_conversations(peers) >= 1

\* The entries of process_new_sockets' log, in the state it leaves.
NewLog == {tick.new_log[i] : i \in DOMAIN tick.new_log}

\* register_peer failed on a check that comes before can_register_peer.
FailedEarly(e) == e.res \in {"SocketError", "DBError"}

\* The socket of entry e is in no registry table and not in the poller.
Rejected(e) ==
    /\ e.res # "Ok"
    /\ e.tables_same
    /\ e.event_id \notin network
    /\ e.event_id \notin DOMAIN peers \cup DOMAIN sockets \cup Range(events)

\* C6 as claimed: an inbound socket accepted with the inbound conversations at
\* num_clients fails with TooManyPeers, is deregistered from the poller in the
\* same tick and leaves peers, sockets and events as they were; one accepted
\* below the limit is registered.
C6_InboundLimit ==
    \A e \in NewLog :
        /\ e.inbound_before = NumClients => e.res = "TooManyPeers" /\ Rejected(e)
        /\ e.inbound_before < NumClients =>
               e.res = "Ok" /\ e.event_id \in DOMAIN peers

\* C6 as amended: at the limit the socket is always rejected (deregistered
\* from the poller in the same tick, the tables left as they were), and the
\* error is TooManyPeers exactly when the checks that come first pass: the
\* peer address and the peer-DB lookup succeed and the neighbor key is not
\* registered yet (else it is SocketError, DBError or AlreadyConnected).
\* Below the limit the socket is registered exactly when those checks pass.
C6_InboundLimitAmended ==
    \A e \in NewLog :
        /\ e.inbound_before = NumClients =>
               /\ Rejected(e)
               /\ ~FailedEarly(e) =>
                      IF e.key_registered THEN e.res = "AlreadyConnected"
                      ELSE e.res = "TooManyPeers"
        /\ e.inbound_before < NumClients =>
               IF FailedEarly(e) THEN Rejected(e)
               ELSE IF e.key_registered
               THEN e.res = "AlreadyConnected" /\ Rejected(e)
               ELSE /\ e.res = "Ok"
                    /\ e.event_id \in DOMAIN peers \cap DOMAIN sockets \cap network
                    /\ ~peers[e.event_id].outbound

\* C6 witness: two inbound sockets were accepted in one tick; the first was
\* registered and the second, at the limit, was refused with TooManyPeers.
C6_Witness ==
    /\ pc = "connecting_sockets"
    /\ \E e \in NewLog : e.inbound_before = NumClients /\ e.res = "TooManyPeers"
    /\ \E e \in NewLog : e.res = "Ok"


\* The successor of a work state in the cycle.
NextWorkState(ws) ==
    CASE ws = "NeighborWalk" -> "BlockInvSync"
      [] ws = "BlockInvSync" -> "BlockDownload"
      [] ws = "BlockDownload" -> "Prune"
      [] ws = "Prune" -> "NeighborWalk"

\* do_network_work has run in the tick in progress.
Worked == tick.work_state0 # None

\* C7: work_state starts in NeighborWalk; it changes only in the step of a
\* tick that runs do_network_work, which a tick takes once, and only to the
\* next state of the cycle NeighborWalk -> BlockInvSync -> BlockDownload ->
\* Prune -> NeighborWalk; so within a tick it is the state the tick started
\* with or that state's successor.
C7_WorkStateCyclic ==
    /\ work_state = "NeighborWalk"
    /\ [][/\ work_state' # work_state =>
               /\ pc = "do_network_work"
               /\ pc' # "do_network_work"
               /\ work_state' = NextWorkState(work_state)
          /\ (pc' = "do_network_work" /\ pc # "do_network_work") =>
               pc = "disconnect_unresponsive"
          /\ Worked' =>
               work_state' \in {tick'.work_state0, NextWorkState(tick'.work_state0)}
         ]_vars

\* C7 witness: a tick has stepped the Prune phase, closing the cycle.
C7_Witness ==
    /\ pc = "done"
    /\ tick.work_state0 = "Prune"
    /\ work_state = "NeighborWalk"

\* The step after do_network_work, with what the phase returned still in the
\* tick record.
JustWorked(ws) ==
    /\ tick.work_state0 = ws
    /\ tick.work # Nothing

\* C8: when the NeighborWalk phase is stepped, work_state becomes BlockInvSync
\* if the walker returns a WalkResult or reports done, and stays NeighborWalk
\* otherwise; with a WalkResult, no neighbor it lists as broken or replaced is
\* registered any more (no `events` entry, no conversation) and the prune
\* latch is the result's do_prune; without one the latch is untouched.
C8_NeighborWalk ==
    JustWorked("NeighborWalk") =>
        /\ (tick.work.some \/ tick.work.done) => work_state = "BlockInvSync"
        /\ ~(tick.work.some \/ tick.work.done) => work_state = "NeighborWalk"
        /\ tick.work.some =>
               /\ do_prune = tick.work.do_prune
               /\ \A nk \in tick.work.neighbors :
                      /\ nk \notin DOMAIN events
                      /\ \A e \in DOMAIN peers :
                             from_socketaddr(peers[e].peer_addr) # nk
        /\ ~tick.work.some => do_prune = tick.latch0

\* C8 witness: the walker returned a WalkResult without reporting done, one of
\* the neighbors it lists was registered, and the result asks for a prune.
C8_Witness ==
    /\ JustWorked("NeighborWalk")
    /\ tick.work.some
    /\ ~tick.work.done
    /\ tick.work.registered
    /\ tick.work.do_prune
    /\ DOMAIN peers # {}

\* C9: when the BlockDownload phase is stepped without a DNS client,
\* work_state becomes Prune in that tick and no block is added to the
\* NetworkResult; with a DNS client it becomes Prune exactly when the
\* downloader reports done, and stays BlockDownload otherwise.
C9_BlockDownload ==
    JustWorked("BlockDownload") =>
        /\ ~tick.work.dns_client => work_state = "Prune" /\ tick.blocks = <<>>
        /\ tick.work.dns_client /\ tick.work.done => work_state = "Prune"
        /\ tick.work.dns_client /\ ~tick.work.done => work_state = "BlockDownload"

\* C9 witness: BlockDownload was stepped without a DNS client.
C9_Witness ==
    /\ JustWorked("BlockDownload")
    /\ ~tick.work.dns_client
    /\ work_state = "Prune"

\* C10: a tick that steps the Prune phase leaves work_state at NeighborWalk
\* and the latch false; prune_connections is called in a tick only if that
\* tick stepped the Prune phase with the latch set.
C10_Prune ==
    /\ (Worked /\ tick.work_state0 = "Prune") =>
           work_state = "NeighborWalk" /\ ~do_prune
    /\ tick.pruned =>
           /\ tick.work_state0 = "Prune"
           /\ tick.latch0
           /\ ~do_prune

\* C10 witness: a tick stepped Prune with the latch set and pruned
\* connections.
C10_Witness ==
    /\ pc = "done"
    /\ tick.pruned
    /\ tick.latch0

\* ------------------------------------------------- claims on the handle

\* The request the dispatch step is about to receive, by its shape.
Dispatching == pc = "dispatch_requests" /\ chan_in # Nothing
IsConnect(req) ==
    /\ req # Nothing
    /\ Len(req.neighbors) = 1
    /\ req.message = None
    /\ req.connect
IsMessageToOne(req) ==
    /\ req # Nothing
    /\ Len(req.neighbors) = 1
    /\ req.message # None
IsBroadcast(req) ==
    /\ req # Nothing
    /\ Len(req.neighbors) > 1
    /\ req.message # None

\* C11 as claimed: a reply is put on the reply channel only by the step that
\* ends the tick.
C11_ReplyAtEndOfTick ==
    [][(chan_out = None /\ chan_out' # None) => pc' = "done"]_vars

\* C11 as amended: a request is received only by dispatch_requests, the third
\* step of a tick and so before the work phase is stepped, and its reply is
\* put on the reply channel by that same step, before new sockets are
\* registered: a reply appears on the channel in no other step.
C11_ReplyInDispatch ==
    [][/\ (chan_in # Nothing /\ chan_in' = Nothing /\ pc' # "dropped") =>
              /\ pc = "dispatch_requests"
              /\ pc' = "new_sockets"
              /\ chan_out = None
              /\ chan_out' # None
       /\ (chan_out = None /\ chan_out' # None) =>
              /\ pc = "dispatch_requests"
              /\ pc' = "new_sockets"
              /\ chan_in # Nothing
      ]_vars

\* C11 witness: a relay was queued by this tick's dispatch_requests (its
\* handle is not yet flushed) and the foreign thread has already received Ok,
\* while the tick has still to register new sockets and step the work phase.
C11_Witness ==
    /\ pc = "new_sockets"
    /\ relay_handles # <<>>
    /\ client = "idle"
    /\ returned = "Ok"
    /\ chan_out = None

\* A socket opened for the address of nk is in the table c of connecting
\* sockets.
ConnectingIn(c, nk) == \E e \in DOMAIN c : c[e].peer_addr = nk.addr
Connecting(nk) == ConnectingIn(connecting, nk)

\* C12 as claimed: when connect_peer(nk) is answered Ok, nk is in `events`.
C12_RegisteredWhenOk ==
    [][(Dispatching /\ IsConnect(chan_in) /\ chan_out' = "Ok") =>
           chan_in.neighbors[1] \in DOMAIN events']_vars

\* C12 as amended: when connect_peer(nk) is answered Ok, nk is in `events` or
\* a socket opened for it is in `connecting`; nk enters `events` only when a
\* later poll reports that socket ready and register_peer accepts it.  Until
\* then, and only then, a relay or signed request to nk is answered
\* NoSuchNeighbor.
C12_ConnectingWhenOk ==
    [][/\ (Dispatching /\ IsConnect(chan_in) /\ chan_out' = "Ok") =>
              LET nk == chan_in.neighbors[1]
              IN  /\ nk \in DOMAIN events' \/ ConnectingIn(connecting', nk)
                  /\ nk \in DOMAIN events' <=> nk \in DOMAIN events
       /\ (Dispatching /\ IsMessageToOne(chan_in)) =>
              (chan_out' = "NoSuchNeighbor" <=>
                   chan_in.neighbors[1] \notin DOMAIN events)
      ]_vars

\* C12 witness: a relay to nk is answered NoSuchNeighbor while the socket that
\* an earlier connect_peer(nk) opened is still connecting.
C12_Witness ==
    /\ call # Nothing
    /\ IsMessageToOne(call)
    /\ chan_out = "NoSuchNeighbor"
    /\ Connecting(call.neighbors[1])

\* C13: a relay or signed request to a neighbor key that is not in `events`
\* is answered NoSuchNeighbor by the step that dispatches it, which pushes
\* nothing to relay_handles and changes no registry table; the operation
\* returns that error.
C13_NoSuchNeighbor ==
    [][/\ (Dispatching /\ IsMessageToOne(chan_in)
              /\ chan_in.neighbors[1] \notin DOMAIN events) =>
              /\ chan_out' = "NoSuchNeighbor"
              /\ relay_handles' = relay_handles
              /\ UNCHANGED <<peers, sockets, events, connecting, network,
                             next_event_id>>
       /\ (client = "waiting" /\ client' = "idle"
              /\ chan_out = "NoSuchNeighbor") =>
              returned' = "NoSuchNeighbor"
      ]_vars

\* C13 witness: with another neighbor registered, an operation has returned
\* NoSuchNeighbor.
C13_Witness ==
    /\ returned = "NoSuchNeighbor"
    /\ DOMAIN events # {}
    /\ relay_handles = <<>>

\* The request has a shape dispatch_request rejects: no neighbor, or several
\* neighbors and no message.
InvalidShape(request) ==
    \/ Len(request.neighbors) = 0
    \/ Len(request.neighbors) > 1 /\ request.message = None

\* C14: whenever the reactor is about to dispatch, for every request shape
\* and whatever the sockets and conversations answer, dispatch_request
\* answers a request with no neighbor, and one with several neighbors and no
\* message, InvalidHandle and leaves the registry as it was; any other
\* request is handled by exactly the one operation its shape selects:
\* connect_peer or disconnect_peer for one neighbor and no message (by
\* `connect`), send_message or relay_message for one neighbor and a message
\* (by `expect_reply`), broadcast_message for several neighbors and a
\* message.  The step that dispatches an invalid request replies
\* InvalidHandle and changes no registry table.
C14_DispatchTable ==
    /\ [](pc = "dispatch_requests" =>
            \A request \in RequestShapes : \A io \in RequestOutcomes(request) :
              LET d == dispatch_request(Net, request, io)
                  len == Len(request.neighbors)
                  one == request.neighbors[1]
                  msg == request.message # None
              IN  /\ InvalidShape(request) =>
                         d = [net |-> Net, res |-> "InvalidHandle"]
                  /\ (len = 1 /\ ~msg /\ request.connect) =>
                         /\ d.net = connect_peer(Net, one, io).net
                         /\ d.res = connect_peer(Net, one, io).res
                  /\ (len = 1 /\ ~msg /\ ~request.connect) =>
                         d = [net |-> disconnect_peer(Net, one), res |-> "Ok"]
                  /\ (len = 1 /\ msg /\ request.expect_reply) =>
                         d = send_message(Net, one, io[1])
                  /\ (len = 1 /\ msg /\ ~request.expect_reply) =>
                         d = relay_message(Net, one, io[1])
                  /\ (len > 1 /\ msg) =>
                         d = [net |-> broadcast_message(Net, request.neighbors, io),
                              res |-> "Ok"])
    /\ [][(Dispatching /\ InvalidShape(chan_in)) =>
              /\ chan_out' = "InvalidHandle"
              /\ UNCHANGED registry
         ]_vars

\* C14 witness: with a peer registered, a broadcast to an empty neighbor list
\* has been answered InvalidHandle by a reactor that is still there.
C14_Witness ==
    /\ pc = "new_sockets"
    /\ call # Nothing
    /\ InvalidShape(call)
    /\ chan_out = "InvalidHandle"
    /\ DOMAIN peers # {}

\* The handles a broadcast to neighbor_keys queues, in the order of the list:
\* one for each listed neighbor that has a conversation which accepts the
\* message (ios[i] is what the conversation of the i-th neighbor answers).
Queued(n, neighbor_keys, ios) ==
    LET Q[i \in 0..Len(neighbor_keys)] ==
            IF i = 0 THEN <<>>
            ELSE IF /\ neighbor_keys[i] \in DOMAIN n.events
                    /\ n.events[neighbor_keys[i]] \in DOMAIN n.peers
                    /\ ios[i] = "Ok"
                 THEN Append(Q[i - 1], n.events[neighbor_keys[i]])
                 ELSE Q[i - 1]
    IN  Q[Len(neighbor_keys)]

\* The lists of two neighbor keys.
Pairs == {<<a, b>> : a, b \in RequestKeys}

\* C15: whenever the reactor is about to dispatch, for every list of two
\* neighbors, whichever of them fail (not registered, or the conversation
\* refuses the message), broadcast_message queues the message for every
\* other listed neighbor and changes nothing else; the step that dispatches a
\* broadcast replies Ok without a handle, having queued the message for each
\* neighbor that could take it and changed no registry table; and the
\* foreign thread's broadcast_signed_message returns Ok on that reply.
C15_BroadcastBestEffort ==
    /\ [](pc = "dispatch_requests" =>
            \A nks \in Pairs : \A ios \in [1..2 -> SendOutcomes] :
              broadcast_message(Net, nks, ios) =
                  [Net EXCEPT !.relay_handles = @ \o Queued(Net, nks, ios)])
    /\ [][/\ (Dispatching /\ IsBroadcast(chan_in)) =>
                 /\ chan_out' = "Ok"
                 /\ \E ios \in [1..Len(chan_in.neighbors) -> SendOutcomes] :
                        relay_handles' =
                            relay_handles \o Queued(Net, chan_in.neighbors, ios)
                 /\ UNCHANGED <<peers, sockets, events, connecting, network,
                                next_event_id>>
          /\ (client = "waiting" /\ client' = "idle" /\ IsBroadcast(call)
                 /\ chan_out # None) =>
                 returned' = "Ok"
         ]_vars

\* C15 witness: a broadcast to <<a1, a2>> was dispatched while a1 was not
\* registered and a2 was: the message is queued for a2 and the reply is Ok.
C15_Witness ==
    LET a1 == NeighborKey(LocalPeerVersion, "a1")
        a2 == NeighborKey(LocalPeerVersion, "a2")
    IN  /\ pc = "new_sockets"
        /\ call = BroadcastRequest(<<a1, a2>>)
        /\ chan_out = "Ok"
        /\ a1 \notin DOMAIN events
        /\ a2 \in DOMAIN events
        /\ relay_handles = <<events[a2]>>

\* C16: whenever the reactor is about to dispatch, connect_peer of a
\* neighbor key that is in `events` returns Ok with the event ID `events`
\* holds for it and leaves the whole registry as it was, whatever opening a
\* socket would have answered: no socket is added to the poller or to
\* `connecting` and next_event_id is not advanced.  The step that dispatches
\* such a connect request replies Ok and changes no registry table, and the
\* foreign thread's connect_peer returns Ok on that reply.
C16_ConnectIdempotent ==
    /\ [](pc = "dispatch_requests" =>
            \A nk \in DOMAIN events : \A io \in ConnectOutcomes :
              connect_peer(Net, nk, io) =
                  [net |-> Net, res |-> "Ok", event_id |-> events[nk]])
    /\ [][/\ (Dispatching /\ IsConnect(chan_in)
                 /\ chan_in.neighbors[1] \in DOMAIN events) =>
                 /\ chan_out' = "Ok"
                 /\ UNCHANGED registry
          /\ (client = "waiting" /\ client' = "idle" /\ IsConnect(call)
                 /\ chan_out = "Ok") =>
                 returned' = "Ok"
         ]_vars

\* C16 witness: a connect request for a registered neighbor has just been
\* answered Ok (a connect request never registers the neighbor itself, so
\* the neighbor was registered when the request was dispatched).
C16_Witness ==
    /\ pc = "new_sockets"
    /\ IsConnect(call)
    /\ chan_out = "Ok"
    /\ call.neighbors[1] \in DOMAIN events
    /\ next_event_id <= MaxEventId

\* C18: once the reactor is dropped, an operation that is issued returns
\* InvalidHandle from its send, without putting a request on the channel and
\* without waiting; an operation that was waiting when the reactor was
\* dropped, with no reply buffered, returns InvalidHandle from its receive;
\* and an operation waiting on a dropped reactor can always return: the
\* receive is never blocked.
C18_InvalidHandleWhenDropped ==
    /\ [][/\ (pc = "dropped" /\ client = "idle") =>
                 /\ returned' = "InvalidHandle"
                 /\ client' = "idle"
                 /\ chan_in' = Nothing
          /\ (pc = "dropped" /\ client = "waiting" /\ chan_out = None) =>
                 /\ returned' = "InvalidHandle"
                 /\ client' = "idle"
         ]_vars
    /\ [](pc = "dropped" => (ENABLED HandleSend) \/ (ENABLED HandleRecv))

\* C18 witness: the reactor is dropped and an operation has returned
\* InvalidHandle.
C18_Witness ==
    /\ pc = "dropped"
    /\ client = "idle"
    /\ returned = "InvalidHandle"

\* ------------------------------------------------ claims on reconnecting

\* The event IDs of the conversations with addr in the registry n.
ConversationsWith(n, addr) == {e \in DOMAIN n.peers : n.peers[e].peer_addr = addr}

\* The hash map m with the key e1, if it has it, renamed to e2.
RenameKey(m, e1, e2) ==
    [x \in ((DOMAIN m) \ {e1}) \cup (IF e1 \in DOMAIN m THEN {e2} ELSE {}) |->
        IF x = e2 THEN m[e1] ELSE m[x]]

\* A conversation without its event ID and without what register_peer
\* preloads from the PeerDB at the burn height of the registration.
Party(convo) == [peer_addr |-> convo.peer_addr, outbound |-> convo.outbound]

\* The registry n, with the event ID e1 renamed to e2, is the registry m.
SameUpToEventId(n, e1, e2, m) ==
    /\ DOMAIN RenameKey(n.peers, e1, e2) = DOMAIN m.peers
    /\ \A e \in DOMAIN m.peers :
           /\ Party(RenameKey(n.peers, e1, e2)[e]) = Party(m.peers[e])
           /\ m.peers[e].conn_id = e
    /\ RenameKey(n.sockets, e1, e2) = m.sockets
    /\ RenameKey(n.connecting, e1, e2) = m.connecting
    /\ DOMAIN n.events = DOMAIN m.events
    /\ \A k \in DOMAIN m.events :
           m.events[k] = IF n.events[k] = e1 THEN e2 ELSE n.events[k]
    /\ m.network = {IF e = e1 THEN e2 ELSE e : e \in n.network}

\* The registry when the second connection completed is the one the single
\* connect(script.nk) had reached, up to the event ID: nk is registered, with
\* one conversation and one socket, under an event ID other than the first
\* connection's, of which no entry remains.
ReconnectedAsOnce ==
    LET nk == script.nk
        first == script.first
        last == script.last
        e1 == CHOOSE e \in ConversationsWith(first, nk.addr) : TRUE
    IN  /\ nk \in DOMAIN last.events
        /\ Cardinality(ConversationsWith(last, nk.addr)) = 1
        /\ Cardinality({e \in DOMAIN last.sockets : last.sockets[e] = nk.addr}) = 1
        /\ Cardinality({k \in DOMAIN last.events :
                           last.events[k] = last.events[nk]}) = 1
        /\ e1 \notin DOMAIN last.peers \cup DOMAIN last.sockets
                     \cup DOMAIN last.connecting
        /\ e1 \notin Range(last.events)
        /\ e1 \notin last.network
        /\ SameUpToEventId(first, e1, last.events[nk], last)

\* C17 as claimed: for every neighbor key nk, when connect(nk),
\* disconnect(nk), connect(nk) have each completed, the registry is the one
\* the single connect reached, up to the event ID, and nothing of the first
\* connection remains.
C17_Reconnect ==
    script.step = "done" => ReconnectedAsOnce

\* The part of C17 that holds: the same, for a neighbor key that carries the
\* reactor's own peer version.
C17_ReconnectOwnVersion ==
    (script.step = "done" /\ script.nk.peer_version = LocalPeerVersion) =>
        ReconnectedAsOnce

\* C17, the failing case: the three calls have completed for a key with
\* another peer version; the key is not registered and the conversation of
\* the first connection is still there, under the key register_peer built.
C17_Witness ==
    /\ script.step = "done"
    /\ script.nk.peer_version # LocalPeerVersion
    /\ script.nk \notin DOMAIN script.last.events
    /\ from_socketaddr(script.nk.addr) \in DOMAIN script.last.events
    /\ script.last.peers = script.first.peers

\* The three calls have completed for a key with the reactor's own version,
\* to a neighbor the PeerDB knows, while the burn chain tip moved.
C17_OwnVersionDone ==
    /\ script.step = "done"
    /\ script.nk = NeighborKey(LocalPeerVersion, "a2")
    /\ script.last.events[script.nk] # script.first.events[script.nk]
    /\ script.last.peers[script.last.events[script.nk]].public_key #
           script.first.peers[script.first.events[script.nk]].public_key

\* ------------------------------------------------ claims on silent peers

\* The conversation e has completed a handshake; nothing has been received
\* from it for more than heartbeat + request-timeout seconds at the time t.
Handshaken(st, e) == StatsOf(st, e).last_handshake_time > 0
Overdue(st, e, t) ==
    t - StatsOf(st, e).last_contact_time > Heartbeat + NEIGHBOR_REQUEST_TIMEOUT

\* The event ID e is in no table of the registry and not with the poller.
Gone(n, e) ==
    /\ e \notin DOMAIN n.peers
    /\ e \notin DOMAIN n.sockets
    /\ e \notin Range(n.events)
    /\ e \notin n.network

\* C19 as claimed: whenever a tick ends, no conversation is left that has
\* completed a handshake and has been silent for more than heartbeat +
\* request-timeout.
C19_CulledByNextTick ==
    [][(pc # "done" /\ pc' = "done") =>
           \A e \in DOMAIN peers' :
               ~(Handshaken(stats', e) /\ Overdue(stats', e, now'))]_vars

\* C19 as amended: the step disconnect_unresponsive of a tick removes every
\* conversation that has completed a handshake and has been silent for more
\* than heartbeat + request-timeout from `peers`, `sockets` and `events` and
\* deregisters its socket from the poller, and removes no other conversation:
\* one whose silence has not exceeded the bound stays as it is.  So no such
\* conversation is left when a tick ends that got past the refresh of the
\* burn chain view; a tick that fails there culls nobody.
C19_CulledByCullStep ==
    [][/\ (pc = "disconnect_unresponsive" /\ pc' = "do_network_work") =>
              \A e \in DOMAIN peers :
                  IF Handshaken(stats, e) /\ Overdue(stats, e, now)
                  THEN Gone(Net', e)
                  ELSE /\ e \in DOMAIN peers' /\ peers'[e] = peers[e]
                       /\ e \in DOMAIN sockets' /\ sockets'[e] = sockets[e]
                       /\ e \in network'
                       /\ \A k \in DOMAIN events :
                              events[k] = e => (k \in DOMAIN events' /\ events'[k] = e)
       /\ (pc \notin {"idle", "done"} /\ pc' = "done") =>
              \A e \in DOMAIN peers' :
                  ~(Handshaken(stats', e) /\ Overdue(stats', e, now'))
       /\ (pc = "idle" /\ pc' = "done") => UNCHANGED <<peers, sockets, events, stats>>
      ]_vars

\* C19 witness: disconnect_unresponsive has just removed a conversation that
\* had completed a handshake and was silent for more than the bound.
C19_Witness ==
    /\ pc = "do_network_work"
    /\ \E e \in DOMAIN stats :
           /\ Handshaken(stats, e)
           /\ Overdue(stats, e, now)
           /\ Gone(Net, e)

\* C20 as claimed: a registered conversation that has not been heard from
\* for more than heartbeat + request-timeout, whether or not it has completed
\* a handshake, is eventually removed, unless it is heard from.
C20_SilentEventuallyRemoved ==
    \A e \in 1..MaxEventId :
        (e \in DOMAIN peers /\ e \notin DOMAIN stats /\ Overdue(stats, e, now))
            ~> (e \notin DOMAIN peers \/ e \in DOMAIN stats)

\* C20, the failing case: disconnect_unresponsive has just run and has left
\* a conversation that was never heard from and whose silence exceeds the
\* bound at the last second of the clock.
C20_Witness ==
    /\ pc = "do_network_work"
    /\ now = MaxTime
    /\ \E e \in DOMAIN peers :
           /\ e \notin DOMAIN stats
           /\ Overdue(stats, e, now)

\* ------------------------------------------------- claims on the re-key

\* The rekey step of a tick that got that far is being taken.
Rekeying == pc = "rekey" /\ pc' = "done"

\* The local private key was replaced.
Rotated == local_peer'.private_key # local_peer.private_key

RekeyCompleted(e) ==
    /\ rekey_handles.some
    /\ e \in DOMAIN rekey_handles.handles
    /\ rekey_handles.handles[e].state = "replied"

\* A handle is recorded under e after this step, and it is pending.
RekeyPending(e) ==
    /\ rekey_handles'.some
    /\ e \in DOMAIN rekey_handles'.handles
    /\ rekey_handles'.handles[e].state = "pending"

\* C22: after a tick that replaces the local key, every registered
\* conversation has completed its re-key handshake or has a pending re-key
\* handle recorded under its event ID, whatever signing and queueing did and
\* whether or not handles of an earlier re-key were in flight.
C22_EveryConversationRekeyed ==
    [][(Rekeying /\ tick'.result = "Ok" /\ Rotated) =>
         \A e \in DOMAIN peers : RekeyCompleted(e) \/ RekeyPending(e)]_vars

\* A tick has replaced the local key while a handshake of the re-key before
\* was in flight, with a conversation registered.
C22_Witness ==
    /\ pc = "done"
    /\ tick.rekey # Nothing
    /\ tick.rekey.rotated
    /\ tick.rekey.before.some
    /\ DOMAIN peers # {}

\* The event IDs of the handles in h that try_recv() finds still pending.
StillPending(h) == {e \in DOMAIN h : h[e].state = "pending"}

C24_NoDuplicateBlocks ==
    \A i, j \in DOMAIN tick.blocks :
        i # j => tick.blocks[i] # tick.blocks[j]

\* A tick has stepped the block download and returned Ok, and the downloader
\* had returned the same block twice.
C24_Witness ==
    /\ pc = "done"
    /\ tick.result = "Ok"
    /\ tick.work_state0 = "BlockDownload"
    /\ tick.blocks = <<"b1", "b1">>

\* C25: a tick whose burn-view refresh fails returns an error and leaves
\* chain_view, local_peer, peers, sockets, events, connecting, work_state, the
\* prune latch and rekey_handles as they were; the request a foreign thread
\* has sent stays in the channel and no reply is sent.
C25_FailedRefreshMutatesNothing ==
    [][(pc = "idle" /\ pc' = "done" /\ tick'.refresh = "burn_view") =>
         /\ tick'.result = "Err"
         /\ UNCHANGED <<chain_view, local_peer, peers, sockets, events,
                        connecting, work_state, do_prune, rekey_handles>>
         /\ UNCHANGED <<chan_in, chan_out, relay_handles>>]_vars

\* The burn-view refresh of a tick has failed with a conversation registered
\* and a request of the foreign thread waiting in the channel, at a burn
\* block height that can still grow.
C25_Witness ==
    /\ pc = "done"
    /\ tick.result = "Err"
    /\ tick.refresh = "burn_view"
    /\ chan_in # Nothing
    /\ DOMAIN peers # {}
    /\ chain_view = 0

\* ------------------------------------------- claims on the conversations

\* recv, chat or send has failed on a conversation.
ConvoFailed(io) == io.recv # "Ok" \/ io.chat # "Ok" \/ io.send # "Ok"

\* The conversations the ready step has found failed.
FailedConvos(t) == {e \in DOMAIN t.convos : ConvoFailed(t.convos[e].io)}

\* C26: a failure of recv, chat or send on a conversation does not end the
\* tick: the step goes on to the next one and the tick returns Ok; the
\* conversations that failed, and only they, are removed from peers, sockets
\* and events, and every other registered conversation stays as it was.
C26_FailureContained ==
    /\ [](pc = "done" => tick.result = "Ok")
    /\ [][(pc = "ready_sockets" /\ pc' # pc) =>
             /\ pc' = "flush_relay_handles"
             /\ tick'.result = None
             /\ DOMAIN peers' = DOMAIN peers \ FailedConvos(tick')
             /\ DOMAIN sockets' = DOMAIN sockets \ FailedConvos(tick')
             /\ DOMAIN events' =
                    {nk \in DOMAIN events : events[nk] \notin FailedConvos(tick')}
             /\ \A e \in DOMAIN peers' :
                    peers'[e] = peers[e] /\ sockets'[e] = sockets[e]
             /\ \A nk \in DOMAIN events' : events'[nk] = events[nk]]_vars

\* A tick has returned Ok in which one ready conversation failed and was
\* removed and another ready conversation did not fail and is registered.
C26_Witness ==
    /\ pc = "done"
    /\ tick.result = "Ok"
    /\ \E e1, e2 \in DOMAIN tick.convos :
         /\ ConvoFailed(tick.convos[e1].io)
         /\ e1 \notin DOMAIN peers
         /\ ~ConvoFailed(tick.convos[e2].io)
         /\ e2 \in DOMAIN peers

\* The ready conversations on which recv failed.
RecvFailed(t) == {e \in DOMAIN t.convos : t.convos[e].io.recv # "Ok"}

\* C29: when recv fails on a ready conversation, because the remote peer
\* closed the socket or for any other reason, chat is still called on it and
\* send is not; the messages chat returns unhandled are in the tick's
\* NetworkResult under the conversation's event ID, and the conversation is
\* deregistered in that step of the tick.
C29_RecvFailureStillChats ==
    /\ [](\A e \in RecvFailed(tick) :
            /\ tick.convos[e].calls = <<"recv", "chat">>
            /\ e \in DOMAIN tick.unhandled
            /\ tick.unhandled[e] =
                   IF tick.convos[e].io.chat = "Ok"
                   THEN tick.convos[e].io.unhandled
                   ELSE <<>>)
    /\ [][(pc = "ready_sockets" /\ pc' # pc) =>
             \A e \in RecvFailed(tick') :
                 /\ e \in DOMAIN peers
                 /\ e \notin DOMAIN peers'
                 /\ e \notin DOMAIN sockets'
                 /\ \A nk \in DOMAIN events' : events'[nk] # e]_vars

\* A tick has returned Ok in which the remote peer of a ready conversation
\* had closed the socket, chat returned a message it did not handle, the
\* message is in the NetworkResult and the conversation is gone.
C29_Witness ==
    /\ pc = "done"
    /\ tick.result = "Ok"
    /\ \E e \in DOMAIN tick.convos :
         /\ tick.convos[e].io.recv = "PermanentlyDrained"
         /\ tick.convos[e].io.chat = "Ok"
         /\ tick.unhandled[e] = <<"m1">>
         /\ e \notin DOMAIN peers

ForeignEndAlive(h) == h.state \in {"idle", "request", "replied"}

C30_LatchSurvives ==
    /\ [][(work_state \in {"BlockInvSync", "BlockDownload"}) =>
             do_prune' = do_prune]_vars
    /\ [][(pc = "do_network_work" /\ pc' # pc /\ work_state = "Prune") =>
             /\ pc' = "send_outbound_messages"
             /\ tick'.do_prune = do_prune
             /\ ~do_prune']_vars
    /\ [][(pc = "prune_connections" /\ pc' # pc) =>
             /\ tick'.pruned = tick.do_prune
             /\ tick.do_prune = (tick.work_state0 = "Prune" /\ tick.latch0)]_vars
    /\ [][tick'.pruned # tick.pruned =>
             \/ pc = "prune_connections" /\ tick'.pruned
             \/ pc = "done" /\ pc' = "idle"]_vars

\* A tick that stepped the block download with the latch set has returned
\* early with an error, and the latch is still set.
C30_Witness ==
    /\ pc = "done"
    /\ tick.result = "Err"
    /\ tick.work_state0 = "BlockDownload"
    /\ tick.latch0
    /\ do_prune

\* ------------------------------------------ claims on the stored public key

\* The conversations the step registers.
NewConversations == {e \in DOMAIN peers' : e \notin DOMAIN peers}

\* C31: a conversation starts with a public key only when the PeerDB holds a
\* record for its peer whose key has not expired at the current burn block
\* height; for an expired or unknown peer it starts with no public key.
C31_OnlyUnexpiredKeyLoaded ==
    [][\A e \in NewConversations :
          peers'[e].public_key # None =>
              \E n \in PeerDBNeighbors :
                  /\ n.addr.addr = peers'[e].peer_addr
                  /\ n.public_key = peers'[e].public_key
                  /\ n.expire_block >= chain_view]_vars

\* At burn block height 1 a conversation is registered with the public key of
\* a record that expired at block 0.
C31_Witness ==
    /\ chain_view = 1
    /\ \E e \in DOMAIN peers :
         /\ peers[e].public_key # None
         /\ get_peer(peers[e].peer_addr).expire_block < chain_view

\* ------------------------------------------- claims on the channel pair

\* dispatch_requests is left.
Dispatched == pc = "dispatch_requests" /\ pc' # pc

\* C32: the capacity-1 channel pair cannot deadlock.  The foreign thread has
\* one outstanding request at most (while it does not wait both channels are
\* empty, and a request and a reply are never buffered together); the request
\* is taken from the channel by dispatch_requests only, once in a tick, and
\* the reply is put into the channel by the same call, for each request taken
\* and for no other; when the reply is sent the reply channel is empty, so
\* that the send does not block; the thread that waits finds its reply after
\* the dispatch_requests that took its request, and every thread that waits
\* returns.
C32_NoDeadlock ==
    /\ [](client = "idle" => chan_in = Nothing /\ chan_out = None)
    /\ [](chan_in # Nothing => client = "waiting" /\ chan_out = None)
    /\ [][Dispatched =>
             IF chan_in # Nothing
             THEN /\ chan_in' = Nothing
                  /\ chan_out' # None
                  /\ client' = "waiting"
             ELSE chan_in' = chan_in /\ chan_out' = chan_out]_vars
    /\ [][(chan_in # Nothing /\ chan_in' = Nothing) => Dispatched]_vars
    /\ [][(chan_out = None /\ chan_out' # None) =>
             Dispatched /\ chan_in # Nothing]_vars
    /\ (client = "waiting") ~> (client = "idle")

\* The thread has been released by the reply to its request and waits for the
\* reply to its next one, which dispatch_requests is about to take.
C32_Witness ==
    /\ pc = "dispatch_requests"
    /\ chan_in # Nothing
    /\ client = "waiting"
    /\ DOMAIN connecting # {}

\* ------------------------------------------------ claims on disconnect_peer

\* The disconnect request of the thread has been dispatched.
DisconnectDispatched ==
    \/ script.step = "disconnect" /\ chan_in = Nothing
    \/ script.step = "disconnected"

\* C33: disconnect_peer(nk) cancels the connection to nk at whatever stage it
\* is: once the disconnect request for nk has been dispatched, and with no
\* connect request for nk after it, nk is not in `events`, also when the
\* socket that connect_peer(nk) opened was still in `connecting`.
C33_DisconnectCancels ==
    DisconnectDispatched => script.nk \notin DOMAIN events

\* The disconnect request has been dispatched while the socket opened by
\* connect_peer was in `connecting`.
C33_Witness ==
    /\ script.step = "disconnected"
    /\ ConnectingIn(connecting, script.nk)

\* ------------------------------------- claims on connections opened twice

\* The event ID is in none of `peers`, `sockets`, `events` and `connecting`
\* of the registry n, and not registered with its poller.
InNoTable(n, e) ==
    /\ e \notin DOMAIN n.peers
    /\ e \notin DOMAIN n.sockets
    /\ e \notin Range(n.events)
    /\ e \notin DOMAIN n.connecting
    /\ e \notin n.network

\* The neighbor of the i-th socket of the log was registered when the socket
\* was taken: before the step, or by the step with a socket taken before.
RegisteredBefore(log, i) ==
    \/ from_socketaddr(log[i].peer_addr) \in DOMAIN events
    \/ \E j \in 1..(i - 1) :
           log[j].peer_addr = log[i].peer_addr /\ log[j].res = "Ok"

Inbound(ps) == {e \in DOMAIN ps : ~ps[e].outbound}

\* C35: in every reachable state the number of inbound conversations is at
\* most num_clients, however inbound accepts, outbound connects,
\* deregistrations and prunes interleave; a step that registers an inbound
\* conversation is a step of process_new_sockets that started below the
\* limit.
C35_InboundAtMostNumClients ==
    /\ [](Cardinality(Inbound(peers)) <= NumClients)
    /\ [][Inbound(peers') \ Inbound(peers) # {} =>
            /\ pc = "new_sockets"
            /\ Cardinality(Inbound(peers)) < NumClients]_vars

\* The inbound conversations are at the limit after the prune of a tick,
\* with an outbound conversation registered.
C35_Witness ==
    /\ tick.pruned
    /\ Cardinality(Inbound(peers)) = NumClients
    /\ count_outbound_conversations(peers) >= 1

\* ================================================ claims on the signer

\* The queue is as it was, or one command was added at its back.
QueueKept ==
    \/ runloop'.commands = runloop.commands
    \/ \E c \in RunLoopCommands : runloop'.commands = Append(runloop.commands, c)

\* C36: the runloop executes one command at a time, in the order they were
\* queued.  A command leaves the queue only from its front, in
\* process_next_command and with the state Idle; the command that is being
\* started is the one taken, and while it is being started the state is Idle;
\* when it has started the state is Dkg for Dkg and Sign for Sign, and the
\* state becomes Dkg or Sign in no other step; while the state is Dkg or Sign
\* no command is started and none leaves the queue.
C36_OneCommandAtATime ==
    /\ [](pass.pc \in {"execute_command", "retrying"} =>
             runloop.state = "Idle" /\ pass.command \in RunLoopCommands)
    /\ [][~QueueKept =>
             /\ pass.pc = "process_next_command"
             /\ runloop.state = "Idle"
             /\ runloop.commands # <<>>
             /\ runloop'.commands = Tail(runloop.commands)
             /\ pass'.command = Head(runloop.commands)
             /\ pass'.pc = "execute_command"]_vars
    /\ [][(pass.pc = "execute_command" /\ pass'.pc = "idle") =>
             runloop'.state = pass.command.kind]_vars
    /\ [][(runloop'.state # runloop.state /\ runloop'.state # "Idle") =>
             pass.pc = "execute_command" /\ pass'.pc = "idle"]_vars
    /\ [][runloop.state \in {"Dkg", "Sign"} =>
             QueueKept /\ pass'.pc \notin {"execute_command", "retrying"}]_vars

\* A Sign command queued behind a Dkg command has waited while the state was
\* Dkg and has been started after the Dkg round finished.
C36_Witness ==
    /\ pass.pc = "idle"
    /\ pass.state0 = "Dkg"
    /\ pass.commands1 # <<>>
    /\ pass.command = Sign("m1")
    /\ runloop.state = "Sign"

\* run_one_pass is entered, and it returns.
PassEntered == pass.pc = "idle" /\ pass'.pc # "idle"
PassReturns == pass.pc # "idle" /\ pass'.pc = "idle"

\* The event yields an operation result or more.
YieldsResults(event) == event # Nothing /\ event.results > 0

\* C37: in run_one_pass the event is processed before the next command.  The
\* state returns to Idle exactly when the event of the pass yields one
\* operation result or more, and the results are then sent on the result
\* channel; the command the pass was given is queued before
\* process_next_command is called; and when the state is Idle then and a
\* command is queued, the pass returns with the command at the front of the
\* queue started, and else with the state and the queue as they were.
C37_EventBeforeCommand ==
    /\ [][PassEntered =>
             /\ IF YieldsResults(pass'.event)
                THEN runloop'.state = "Idle" /\ pass'.sent \in ResultSends
                ELSE runloop'.state = runloop.state /\ pass'.sent = None
             /\ pass'.state1 = runloop'.state
             /\ pass'.commands1 = runloop'.commands
             /\ pass'.commands1 =
                    IF pass'.cmd = Nothing THEN runloop.commands
                    ELSE Append(runloop.commands, pass'.cmd)]_vars
    /\ [][(runloop.state # "Idle" /\ runloop'.state = "Idle") =>
             PassEntered /\ YieldsResults(pass'.event)]_vars
    /\ [][PassReturns =>
             IF pass.state1 = "Idle" /\ pass.commands1 # <<>>
             THEN /\ pass'.command = Head(pass.commands1)
                  /\ runloop'.state = Head(pass.commands1).kind
                  /\ runloop'.commands = Tail(pass.commands1)
             ELSE /\ pass'.command = Nothing
                  /\ runloop'.state = pass.state1
                  /\ runloop'.commands = pass.commands1]_vars

\* A pass entered in the state Dkg with an event that finished the round and
\* with a Sign command, the queue being empty, has returned with the Sign
\* round started.
C37_Witness ==
    /\ pass.pc = "idle"
    /\ pass.state0 = "Dkg"
    /\ YieldsResults(pass.event)
    /\ pass.cmd = Sign("m2")
    /\ pass.commands1 = <<Sign("m2")>>
    /\ runloop.state = "Sign"
    /\ runloop.commands = <<>>

\* C38: every call of run_one_pass terminates: when the coordinator fails to
\* start the command taken from the queue, the coordinator is reset and the
\* pass still returns; the command is not retried for ever inside the pass.
C38_PassTerminates ==
    (pass.pc # "idle") ~> (pass.pc = "idle")

\* The coordinator has failed to start the command taken from the queue and
\* has been reset, and the loop is about to call execute_command again.
C38_Witness ==
    /\ pass.pc = "retrying"
    /\ runloop.coordinator = "reset"
    /\ runloop.state = "Idle"
    /\ pass.command \in RunLoopCommands

\* ================================================ claims on send_message

\* A round of the loop is taken, and the loop goes round again after it.
RoundTaken == sending.pc = "loop" /\ Len(sending'.attempts) > Len(sending.attempts)
Retried == RoundTaken /\ sending'.pc = "loop"

\* What the round met.
Met == sending'.attempts[Len(sending'.attempts)]

\* The last version recorded for the slot, 0 when there is none.
Recorded(versions, slot_id) ==
    IF slot_id \in DOMAIN versions THEN versions[slot_id] ELSE 0

\* C39: send_message retries only when the chunk was rejected because data
\* for the slot and version already exists; every attempt carries the version
\* that is one greater than the last version recorded for the slot, and the
\* recorded version never decreases; an accepted chunk ends the call with Ok
\* and any other rejection ends it with PutChunkRejected.
C39_RetriesOnlyOnConflict ==
    /\ [][Retried =>
             /\ Met.outcome.kind = "Ack"
             /\ ~Met.outcome.accepted
             /\ Met.outcome.reason = VersionConflict]_vars
    /\ [][RoundTaken =>
             /\ Met.version = Recorded(slot_versions, sending.slot_id) + 1
             /\ Met.outcome.kind = "Ack" =>
                    IF Met.outcome.accepted
                    THEN sending'.pc = "idle" /\ sending'.result = "Ok"
                    ELSE IF Met.outcome.reason = VersionConflict
                    THEN sending'.pc = "loop"
                    ELSE /\ sending'.pc = "idle"
                         /\ sending'.result = "PutChunkRejected"]_vars
    /\ [][\A slot \in Slots :
             Recorded(slot_versions', slot) >= Recorded(slot_versions, slot)]_vars

\* A call has returned Ok after a version conflict: its second chunk, with
\* the next version, was accepted.
C39_Witness ==
    /\ sending.pc = "idle"
    /\ sending.result = "Ok"
    /\ Len(sending.attempts) = 2
    /\ sending.attempts[1].outcome.reason = VersionConflict
    /\ sending.attempts[2].version = sending.attempts[1].version + 1

\* ================================================ claims on the tokens

\* special_transfer_token is called.
Transferred == transfer' # transfer \/ ft_balances' # ft_balances

\* C40: the transfer of a fungible token conserves the balances.  A
\* successful transfer takes the amount from the balance of the sender, adds
\* it to the balance of the recipient and changes no other balance, so that
\* the sum of the balances is unchanged; a transfer of a non-positive amount,
\* from a principal to itself, or of more than the balance of the sender
\* returns (err 3), (err 2), (err 1), checked in that order, and changes no
\* balance; no balance is ever negative.
C40_TransferConserves ==
    /\ [](\A p \in DOMAIN ft_balances : ft_balances[p] >= 0)
    /\ [][Transferred =>
            LET t == transfer'
            IN  /\ t.before = ft_balances
                /\ t.res = ResponseOk =>
                     /\ t.amount > 0
                     /\ t.from # t.to
                     /\ ft_balances[t.from] >= t.amount
                     /\ ft_balances'[t.from] = ft_balances[t.from] - t.amount
                     /\ ft_balances'[t.to] = ft_balances[t.to] + t.amount
                     /\ \A p \in Principals \ {t.from, t.to} :
                            ft_balances'[p] = ft_balances[p]
                     /\ TotalBalance(ft_balances') = TotalBalance(ft_balances)
                /\ t.res \in {ResponseErr(1), ResponseErr(2), ResponseErr(3)} =>
                     ft_balances' = ft_balances
                /\ t.io # "InvalidArguments" =>
                     /\ t.amount <= 0 => t.res = ResponseErr(3)
                     /\ (t.amount > 0 /\ t.from = t.to) => t.res = ResponseErr(2)
                     /\ (t.amount > 0 /\ t.from # t.to /\ t.io # "GetFromErr"
                           /\ ft_balances[t.from] < t.amount) =>
                            t.res = ResponseErr(1)
                /\ t.res = ResponseErr(3) => t.amount <= 0
                /\ t.res = ResponseErr(2) => t.amount > 0 /\ t.from = t.to
                /\ t.res = ResponseErr(1) =>
                     /\ t.amount > 0
                     /\ t.from # t.to
                     /\ ft_balances[t.from] < t.amount]_vars

\* A transfer of the whole balance of the sender has succeeded, to a
\* recipient that had tokens, with a third principal holding some.
C40_Witness ==
    /\ transfer.res = ResponseOk
    /\ transfer.before[transfer.from] = transfer.amount
    /\ transfer.before[transfer.to] > 0
    /\ ft_balances[transfer.from] = 0
    /\ \E p \in Principals \ {transfer.from, transfer.to} : ft_balances[p] > 0

====
